---- MODULE Spec2Model ----
(***************************************************************************)
(* A model of the yarl2 character-grid window (src/src/lib.rs): the four   *)
(* CPU-side cell buffers, the dirty flag, the floating-glyph instance      *)
(* pool, snapshots, and the upload step of draw().                         *)
(*                                                                         *)
(* Vec<u8> buffers are functions over 0..len-1, Option<T> is <<>> (None)   *)
(* or <<v>> (Some(v)), a Col is a 4-tuple of bytes.  A panic (assert!,     *)
(* panic!, index out of range) sets the panicked field of the window       *)
(* record: the call chain stops there and the program takes no more steps. *)
(***************************************************************************)
EXTENDS Integers, Sequences, FiniteSets, TLC

\* ------------------------------------------------------------------ bounds
\* config.size.0 and config.size.1: the grid's columns and rows.
Cols == 5
Rows == 3
\* The number of glyph-atlas layers (config.font.len()).
Layers == 2
\* config.max_instances: the capacity of the instance pool.
MaxInstances == 2
\* The number of calls explored by each specification.
MaxSteps == 3
MaxSetSteps == 2
MaxPoolSteps == 5
MaxSnapSteps == 3
MaxPrintSteps == 2
MaxRectSteps == 2
MaxFontSteps == 3
MaxLoopSteps == 3
MaxKeySteps == 3
MaxInputSteps == 2
MaxWrapSteps == 2
MaxUiSteps == 4

\* ------------------------------------------------------------- data types
None == <<>>
Some(v) == <<v>>

TRANSPARENT == <<0, 0, 0, 0>>
BLACK == <<0, 0, 0, 255>>
WHITE == <<255, 255, 255, 255>>
RED == <<255, 0, 0, 255>>

Cells == Cols * Rows

\* vec![0; n]
ZeroVec(n) == [i \in 0 .. n - 1 |-> 0]
VecLen(v) == Cardinality(DOMAIN v)

\* InstanceData::zeroed()
ZeroInstance ==
    [position |-> <<0, 0>>, set_char |-> <<0, 0>>,
     fg |-> TRANSPARENT, bg |-> TRANSPARENT]

\* codepage_437::CP437_WINGDINGS.encode on the characters the model uses:
\* ASCII letters keep their code, the euro sign has no CP437 glyph.
encode(character) ==
    CASE character = "A" -> Some(65)
      [] character = "H" -> Some(72)
      [] character = "i" -> Some(105)
      [] OTHER -> None

\* InstanceData::new: set_char = [set, encode(ch).unwrap()]
InstanceData_new(ch, fg, bg, position, set) ==
    [position |-> position, set_char |-> <<set, encode(ch)[1]>>,
     fg |-> fg, bg |-> bg]

\* P::try_into::<usize>(): fails on a negative number.
try_into(v) == IF v >= 0 THEN Some(v) ELSE None

\* ------------------------------------------------------------------ state
VARIABLES
    buffer_chars,       \* Vec<u8>, one glyph byte per cell
    buffer_colors_fg,   \* Vec<u8>, four bytes per cell
    buffer_colors_bg,   \* Vec<u8>, four bytes per cell
    set_buffer,         \* Vec<u8>, one font selector per cell
    dirty,              \* bool
    instances,          \* Vec<InstanceData> of length max_instances
    instance_count,     \* u32, the live prefix of instances
    gpu,                \* the GPU-side copies written by queue.write_*
    snap,               \* the Snapshot last returned by take_snapshot
    hist,               \* history: the grid when snap was taken, calls since
    app,                \* the event loop: pending redraws, exit, callbacks,
                        \* keyboard and pointer, surface configuration
    last,               \* the last call: its name, arguments and outcome
    steps               \* the number of calls made so far

vars == <<buffer_chars, buffer_colors_fg, buffer_colors_bg, set_buffer, dirty,
          instances, instance_count, gpu, snap, app, hist, last, steps>>

grid == <<buffer_chars, buffer_colors_fg, buffer_colors_bg, set_buffer>>
pool == <<instances, instance_count>>

\* The fields of Window that the grid and pool methods read and write.
Self ==
    [buffer_chars |-> buffer_chars, buffer_colors_fg |-> buffer_colors_fg,
     buffer_colors_bg |-> buffer_colors_bg, set_buffer |-> set_buffer,
     dirty |-> dirty, instances |-> instances,
     instance_count |-> instance_count, panicked |-> FALSE]

\* ---------------------------------------------------------------- setters
\* x + y * self.config_chargrid.size.0
Index(x, y) == x + y * Cols

\* The bounds test shared by every setter, after try_into succeeded.
InBounds(x, y) ==
    /\ try_into(x) # None
    /\ try_into(y) # None
    /\ x < Cols
    /\ y < Rows

\* buffer[index..index + 4]
Slice4(buffer, index) == <<buffer[index], buffer[index + 1],
                           buffer[index + 2], buffer[index + 3]>>

\* n.copy_from_slice(&k) on buffer[index..index + 4]
CopyFromSlice4(buffer, index, k) ==
    [j \in DOMAIN buffer |->
        IF j >= index /\ j < index + 4 THEN k[j - index + 1] ELSE buffer[j]]

\* set_fg_at without the comparison against the stored colour.
set_fg_at_always_dirty(w, x, y, fg) ==
    IF w.panicked \/ ~InBounds(x, y) THEN w
    ELSE [w EXCEPT !.buffer_colors_fg = CopyFromSlice4(@, Index(x, y) * 4, fg),
                   !.dirty = TRUE]

set_fg_at(w, x, y, fg) ==
    IF w.panicked \/ ~InBounds(x, y) THEN w
    ELSE LET index == Index(x, y) * 4
         IN IF Slice4(w.buffer_colors_fg, index) # fg
            THEN [w EXCEPT !.buffer_colors_fg = CopyFromSlice4(@, index, fg),
                           !.dirty = TRUE]
            ELSE w

\* set_set_at with the assertion moved inside the bounds test.
set_set_at_asserts_in_bounds(w, x, y, value) ==
    IF w.panicked \/ ~InBounds(x, y) THEN w
    ELSE IF ~(value < (Layers % 256)) THEN [w EXCEPT !.panicked = TRUE]
    ELSE LET index == Index(x, y)
         IN IF w.set_buffer[index] # value
            THEN [w EXCEPT !.set_buffer[index] = value, !.dirty = TRUE]
            ELSE w

\* set_set_at without the assertion on the layer count.
set_set_at_unchecked(w, x, y, value) ==
    IF w.panicked \/ ~InBounds(x, y) THEN w
    ELSE LET index == Index(x, y)
         IN IF w.set_buffer[index] # value
            THEN [w EXCEPT !.set_buffer[index] = value, !.dirty = TRUE]
            ELSE w

\* set_set_at without the test x < size.0.
set_set_at_no_column_check(w, x, y, value) ==
    IF w.panicked THEN w
    ELSE IF ~(value < (Layers % 256)) THEN [w EXCEPT !.panicked = TRUE]
    ELSE IF ~(try_into(x) # None /\ try_into(y) # None /\ y < Rows) THEN w
    ELSE LET index == Index(x, y)
         IN IF w.set_buffer[index] # value
            THEN [w EXCEPT !.set_buffer[index] = value, !.dirty = TRUE]
            ELSE w

set_set_at(w, x, y, value) ==
    IF w.panicked THEN w
    ELSE IF ~(value < (Layers % 256)) THEN [w EXCEPT !.panicked = TRUE]
    ELSE IF ~InBounds(x, y) THEN w
    ELSE LET index == Index(x, y)
         IN IF w.set_buffer[index] # value
            THEN [w EXCEPT !.set_buffer[index] = value, !.dirty = TRUE]
            ELSE w

set_bg_at(w, x, y, bg) ==
    IF w.panicked \/ ~InBounds(x, y) THEN w
    ELSE LET index == Index(x, y) * 4
         IN IF Slice4(w.buffer_colors_bg, index) # bg
            THEN [w EXCEPT !.buffer_colors_bg = CopyFromSlice4(@, index, bg),
                           !.dirty = TRUE]
            ELSE w

set_char_at_bin(w, x, y, character) ==
    IF w.panicked \/ ~InBounds(x, y) THEN w
    ELSE LET index == Index(x, y)
         IN IF w.buffer_chars[index] # character
            THEN [w EXCEPT !.buffer_chars[index] = character, !.dirty = TRUE]
            ELSE w

set_char_at(w, x, y, character) ==
    IF w.panicked \/ ~InBounds(x, y) THEN w
    ELSE IF encode(character) = None THEN w
    ELSE LET index == Index(x, y)
             char_u8 == encode(character)[1]
         IN IF w.buffer_chars[index] # char_u8
            THEN [w EXCEPT !.buffer_chars[index] = char_u8, !.dirty = TRUE]
            ELSE w

\* ---------------------------------------------------- print and draw_rect
\* The loop body of a print that forgets `let x = x + i.0`: every character
\* is written at the start column.
print_char_no_advance(w, x0, y, text, i, fg, bg, set) ==
    LET x == x0
        character == text[i + 1]
    IN IF w.panicked \/ encode(character) = None THEN w
       ELSE IF ~(x < Cols /\ y < Rows) THEN w
       ELSE LET index == x + y * Cols
                char_u8 == encode(character)[1]
                w1 == IF w.buffer_chars[index] # char_u8
                      THEN [w EXCEPT !.buffer_chars[index] = char_u8,
                                     !.dirty = TRUE]
                      ELSE w
                w2 == IF fg # None THEN set_fg_at(w1, x, y, fg[1]) ELSE w1
                w3 == IF bg # None THEN set_bg_at(w2, x, y, bg[1]) ELSE w2
            IN IF set # None THEN set_set_at(w3, x, y, set[1]) ELSE w3

\* The body of the `for i in k.chars().enumerate()` loop of print_at_set,
\* for the character at 0-based position i, x and y already converted.
print_char(w, x0, y, text, i, fg, bg, set) ==
    LET x == x0 + i
        character == text[i + 1]
    IN IF w.panicked \/ encode(character) = None THEN w
       ELSE IF ~(x < Cols /\ y < Rows) THEN w
       ELSE LET index == Index(x, y)
                char_u8 == encode(character)[1]
                w1 == IF w.buffer_chars[index] # char_u8
                      THEN [w EXCEPT !.buffer_chars[index] = char_u8,
                                     !.dirty = TRUE]
                      ELSE w
                w2 == IF fg # None THEN set_fg_at(w1, x, y, fg[1]) ELSE w1
                w3 == IF bg # None THEN set_bg_at(w2, x, y, bg[1]) ELSE w2
            IN IF set # None THEN set_set_at(w3, x, y, set[1]) ELSE w3

RECURSIVE print_loop(_, _, _, _, _, _, _, _)
print_loop(w, x0, y, text, i, fg, bg, set) ==
    IF i >= Len(text) THEN w
    ELSE print_loop(print_char(w, x0, y, text, i, fg, bg, set),
                    x0, y, text, i + 1, fg, bg, set)

print_at_set(w, x, y, text, fg, bg, set) ==
    IF try_into(x) = None \/ try_into(y) = None THEN w
    ELSE print_loop(w, x, y, text, 0, fg, bg, set)

print_at(w, x, y, text, fg, bg) == print_at_set(w, x, y, text, fg, bg, None)

\* The set!(x, y) macro of draw_rect; f holds the four optional fields.
set_macro(w, x, y, f) ==
    LET w1 == IF f.fg # None THEN set_fg_at(w, x, y, f.fg[1]) ELSE w
        w2 == IF f.bg # None THEN set_bg_at(w1, x, y, f.bg[1]) ELSE w1
        w3 == IF f.ch # None THEN set_char_at(w2, x, y, f.ch[1]) ELSE w2
    IN IF f.set # None THEN set_set_at(w3, x, y, f.set[1]) ELSE w3

\* The number of iterations of `for v in a..b`.
RangeLen(a, b) == IF b > a THEN b - a ELSE 0

\* The outline of a draw_rect whose second edge is one too far: the bottom
\* row at y + height and the right column at x + width.
rect_cells_edge_off_by_one(x, y, width, height, filled) ==
    LET nx == IF width > 0 THEN width ELSE 0
        ny == IF height > 0 THEN height ELSE 0
    IN IF filled
       THEN [k \in 1 .. nx * ny |->
                <<x + ((k - 1) \div ny), y + ((k - 1) % ny)>>]
       ELSE [k \in 1 .. 2 * nx |->
                <<x + ((k - 1) \div 2),
                  IF (k - 1) % 2 = 0 THEN y ELSE y + height>>]
            \o
            [k \in 1 .. 2 * ny |->
                <<IF (k - 1) % 2 = 0 THEN x ELSE x + width,
                  y + ((k - 1) \div 2)>>]

\* The cells draw_rect visits, in the order of its loops.
rect_cells(x, y, width, height, filled) ==
    LET nx == RangeLen(x, x + width)
        ny == RangeLen(y, y + height)
    IN IF filled
       THEN [k \in 1 .. nx * ny |->
                <<x + ((k - 1) \div ny), y + ((k - 1) % ny)>>]
       ELSE [k \in 1 .. 2 * nx |->
                <<x + ((k - 1) \div 2),
                  IF (k - 1) % 2 = 0 THEN y ELSE y + height - 1>>]
            \o
            [k \in 1 .. 2 * ny |->
                <<IF (k - 1) % 2 = 0 THEN x ELSE x + width - 1,
                  y + ((k - 1) \div 2)>>]

RECURSIVE rect_loop(_, _, _, _)
rect_loop(w, cells, k, f) ==
    IF k > Len(cells) THEN w
    ELSE rect_loop(set_macro(w, cells[k][1], cells[k][2], f), cells, k + 1, f)

draw_rect(w, x, y, width, height, filled, f) ==
    rect_loop(w, rect_cells(x, y, width, height, filled), 1, f)

\* ------------------------------------------------------------ TextBuilder
\* A TextBuilder is [segments, fg, bg, set]; a TextSegment is
\* [text, fg, bg, set].
TextBuilder_create == [segments |-> <<>>, fg |-> WHITE, bg |-> BLACK, set |-> 0]

TextBuilder_text(tb, text) ==
    [tb EXCEPT !.segments =
        Append(@, [text |-> text, fg |-> tb.fg, bg |-> tb.bg, set |-> tb.set])]

TextBuilder_fg(tb, fg) == [tb EXCEPT !.fg = fg]
TextBuilder_bg(tb, bg) == [tb EXCEPT !.bg = bg]
TextBuilder_set(tb, set) == [tb EXCEPT !.set = set]

\* u8::saturating_sub
saturating_sub(a, b) == IF a > b THEN a - b ELSE 0

\* fn sub(a: Col, b: Col) -> Col inside print_sub_cutoff
sub(a, b) ==
    <<saturating_sub(a[1], b[1]), saturating_sub(a[2], b[2]),
      saturating_sub(a[3], b[3]), 255>>

\* The characters of the segments in order, each with its segment.
RECURSIVE segment_chars(_)
segment_chars(segments) ==
    IF segments = <<>> THEN <<>>
    ELSE [i \in 1 .. Len(Head(segments).text) |->
             [ch |-> Head(segments).text[i], seg |-> Head(segments)]]
         \o segment_chars(Tail(segments))

\* The loops wrapping as soon as the pen reaches width_end.
RECURSIVE print_sub_loop_wraps_early(_, _, _, _, _, _, _, _, _)
print_sub_loop_wraps_early(w, cs, k, x, y, width_end, col_sub, return_x, cutoff_y) ==
    IF k > Len(cs) THEN [window |-> w, ret |-> <<x, y>>]
    ELSE IF cutoff_y # None /\ y >= cutoff_y[1]
    THEN [window |-> w, ret |-> <<x, y>>]
    ELSE LET seg == cs[k].seg
             w1 == set_bg_at(w, x, y, sub(seg.bg, col_sub))
             w2 == set_char_at(w1, x, y, cs[k].ch)
             w3 == set_fg_at(w2, x, y, sub(seg.fg, col_sub))
             w4 == set_set_at(w3, x, y, seg.set)
         IN IF w4.panicked THEN [window |-> w4, ret |-> <<x, y>>]
            ELSE IF x >= width_end
            THEN print_sub_loop_wraps_early(w4, cs, k + 1, return_x, y + 1, width_end,
                                            col_sub, return_x, cutoff_y)
            ELSE print_sub_loop_wraps_early(w4, cs, k + 1, x + 1, y, width_end,
                                            col_sub, return_x, cutoff_y)

\* The loops testing the cutoff with y > limit.
RECURSIVE print_sub_loop_cuts_late(_, _, _, _, _, _, _, _, _)
print_sub_loop_cuts_late(w, cs, k, x, y, width_end, col_sub, return_x, cutoff_y) ==
    IF k > Len(cs) THEN [window |-> w, ret |-> <<x, y>>]
    ELSE IF cutoff_y # None /\ y > cutoff_y[1]
    THEN [window |-> w, ret |-> <<x, y>>]
    ELSE LET seg == cs[k].seg
             w1 == set_bg_at(w, x, y, sub(seg.bg, col_sub))
             w2 == set_char_at(w1, x, y, cs[k].ch)
             w3 == set_fg_at(w2, x, y, sub(seg.fg, col_sub))
             w4 == set_set_at(w3, x, y, seg.set)
         IN IF w4.panicked THEN [window |-> w4, ret |-> <<x, y>>]
            ELSE IF x > width_end
            THEN print_sub_loop_cuts_late(w4, cs, k + 1, return_x, y + 1, width_end,
                                          col_sub, return_x, cutoff_y)
            ELSE print_sub_loop_cuts_late(w4, cs, k + 1, x + 1, y, width_end,
                                          col_sub, return_x, cutoff_y)

\* The two nested loops of print_sub_cutoff from the k-th character on,
\* the pen at (x, y); returns the window and the pen it reports.
RECURSIVE print_sub_loop(_, _, _, _, _, _, _, _, _)
print_sub_loop(w, cs, k, x, y, width_end, col_sub, return_x, cutoff_y) ==
    IF k > Len(cs) THEN [window |-> w, ret |-> <<x, y>>]
    ELSE IF cutoff_y # None /\ y >= cutoff_y[1]
    THEN [window |-> w, ret |-> <<x, y>>]
    ELSE LET seg == cs[k].seg
             w1 == set_bg_at(w, x, y, sub(seg.bg, col_sub))
             w2 == set_char_at(w1, x, y, cs[k].ch)
             w3 == set_fg_at(w2, x, y, sub(seg.fg, col_sub))
             w4 == set_set_at(w3, x, y, seg.set)
         IN IF w4.panicked THEN [window |-> w4, ret |-> <<x, y>>]
            ELSE IF x > width_end
            THEN print_sub_loop(w4, cs, k + 1, return_x, y + 1,
                                width_end, col_sub, return_x, cutoff_y)
            ELSE print_sub_loop(w4, cs, k + 1, x + 1, y,
                                width_end, col_sub, return_x, cutoff_y)

print_sub_cutoff(tb, w, pos, width_end, col_sub, return_x, cutoff_y) ==
    print_sub_loop(w, segment_chars(tb.segments), 1, pos[1], pos[2],
                   width_end, col_sub, return_x, cutoff_y)

print_sub(tb, w, pos, width_end, col_sub, return_x) ==
    print_sub_cutoff(tb, w, pos, width_end, col_sub, return_x, None)

TextBuilder_print(tb, w, pos, width_end, return_x) ==
    print_sub(tb, w, pos, width_end, TRANSPARENT, return_x)

\* ---------------------------------------------------- clear and instances
\* clear without self.set_buffer.fill(0).
clear_keeps_set_buffer(w) ==
    [w EXCEPT !.dirty = TRUE,
              !.buffer_chars = ZeroVec(VecLen(@)),
              !.buffer_colors_bg = ZeroVec(VecLen(@)),
              !.buffer_colors_fg = ZeroVec(VecLen(@)),
              !.instance_count = 0]

\* clear that also zeroes every slot of the instance array.
clear_zeroes_instances(w) ==
    [w EXCEPT !.dirty = TRUE,
              !.buffer_chars = ZeroVec(VecLen(@)),
              !.buffer_colors_bg = ZeroVec(VecLen(@)),
              !.buffer_colors_fg = ZeroVec(VecLen(@)),
              !.set_buffer = ZeroVec(VecLen(@)),
              !.instances = [i \in DOMAIN @ |-> ZeroInstance],
              !.instance_count = 0]

clear(w) ==
    [w EXCEPT !.dirty = TRUE,
              !.buffer_chars = ZeroVec(VecLen(@)),
              !.buffer_colors_bg = ZeroVec(VecLen(@)),
              !.buffer_colors_fg = ZeroVec(VecLen(@)),
              !.set_buffer = ZeroVec(VecLen(@)),
              !.instance_count = 0]

\* add_instance without self.dirty = true.
add_instance_no_dirty(w, instance) ==
    LET m == w.instance_count
    IN IF m < Len(w.instances)
       THEN [window |-> [w EXCEPT !.instances[m + 1] = instance,
                                  !.instance_count = @ + 1],
             ret |-> TRUE]
       ELSE [window |-> w, ret |-> FALSE]

\* add_instance that pushes onto the Vec when the pool is full.
add_instance_grows(w, instance) ==
    LET m == w.instance_count
    IN IF m < Len(w.instances)
       THEN [window |-> [w EXCEPT !.instances[m + 1] = instance,
                                  !.dirty = TRUE,
                                  !.instance_count = @ + 1],
             ret |-> TRUE]
       ELSE [window |-> [w EXCEPT !.instances = Append(@, instance),
                                  !.dirty = TRUE,
                                  !.instance_count = @ + 1],
             ret |-> TRUE]

\* add_instance returns the window and the bool it reports.
add_instance(w, instance) ==
    LET m == w.instance_count
    IN IF m < Len(w.instances)
       THEN [window |-> [w EXCEPT !.instances[m + 1] = instance,
                                  !.dirty = TRUE,
                                  !.instance_count = @ + 1],
             ret |-> TRUE]
       ELSE [window |-> w, ret |-> FALSE]

\* -------------------------------------------------------------- snapshots
\* take_snapshot with the bounds test written with > instead of >=.
take_snapshot_inclusive(w, x, y, width, height) ==
    IF x + width > Cols \/ y + height > Rows
    THEN [panicked |-> TRUE, snapshot |-> None]
    ELSE LET n == width * height
             idx(k) == Index(x + (k \div height), y + (k % height))
         IN [panicked |-> FALSE,
             snapshot |-> Some(
               [begin |-> <<x, y>>,
                size |-> <<width, height>>,
                fg |-> [j \in 0 .. n * 4 - 1 |->
                          w.buffer_colors_fg[idx(j \div 4) * 4 + (j % 4)]],
                bg |-> [j \in 0 .. n * 4 - 1 |->
                          w.buffer_colors_bg[idx(j \div 4) * 4 + (j % 4)]],
                set |-> [k \in 0 .. n - 1 |-> w.set_buffer[idx(k)]],
                text |-> [k \in 0 .. n - 1 |-> w.buffer_chars[idx(k)]]])]

\* take_snapshot: panicked, or the Snapshot built by the nested loops
\* `for x in x..x+width { for y in y..y+height { push } }`: the k-th cell
\* pushed (0-based) is (x + k / height, y + k % height).
take_snapshot(w, x, y, width, height) ==
    IF x + width >= Cols \/ y + height >= Rows
    THEN [panicked |-> TRUE, snapshot |-> None]
    ELSE LET n == width * height
             cx(k) == x + (k \div height)
             cy(k) == y + (k % height)
             idx(k) == Index(cx(k), cy(k))
         IN [panicked |-> FALSE,
             snapshot |-> Some(
               [begin |-> <<x, y>>,
                size |-> <<width, height>>,
                fg |-> [j \in 0 .. n * 4 - 1 |->
                          w.buffer_colors_fg[idx(j \div 4) * 4 + (j % 4)]],
                bg |-> [j \in 0 .. n * 4 - 1 |->
                          w.buffer_colors_bg[idx(j \div 4) * 4 + (j % 4)]],
                set |-> [k \in 0 .. n - 1 |-> w.set_buffer[idx(k)]],
                text |-> [k \in 0 .. n - 1 |-> w.buffer_chars[idx(k)]]])]

\* The index of a row-major snapshot: (x - bx) + (y - by) * size.0.
snapshot_idx_row_major(snapshot, dx, dy) == dx + dy * snapshot.size[1]

\* snapshot.size.1 * (x - bx) + (y - by)
snapshot_idx(snapshot, dx, dy) == dx * snapshot.size[2] + dy

\* The body of apply_snapshot's inner loop for the cell (x, y).
apply_cell(w, snapshot, bx, by, x, y) ==
    LET idx == snapshot_idx(snapshot, x - bx, y - by)
    IN IF w.panicked THEN w
       ELSE IF ~(x - bx < snapshot.size[1] /\ y - by < snapshot.size[2]) THEN w
       ELSE IF ~(idx \in DOMAIN snapshot.text /\ idx \in DOMAIN snapshot.set
                 /\ idx * 4 + 3 \in DOMAIN snapshot.fg
                 /\ idx * 4 + 3 \in DOMAIN snapshot.bg)
            THEN [w EXCEPT !.panicked = TRUE]
       ELSE LET w1 == set_char_at_bin(w, x, y, snapshot.text[idx])
                w2 == set_set_at(w1, x, y, snapshot.set[idx])
                w3 == set_fg_at(w2, x, y, Slice4(snapshot.fg, idx * 4))
            IN set_bg_at(w3, x, y, Slice4(snapshot.bg, idx * 4))

RECURSIVE apply_loop(_, _, _, _, _)
apply_loop(w, snapshot, bx, by, k) ==
    IF k >= snapshot.size[1] * snapshot.size[2] THEN w
    ELSE apply_loop(apply_cell(w, snapshot, bx, by,
                               bx + (k \div snapshot.size[2]),
                               by + (k % snapshot.size[2])),
                    snapshot, bx, by, k + 1)

\* apply_snapshot that fails when the destination leaves the grid.
apply_snapshot_rejects_outside(w, snapshot, x, y) ==
    IF x < 0 \/ y < 0 \/ x + snapshot.size[1] > Cols \/ y + snapshot.size[2] > Rows
    THEN [w EXCEPT !.panicked = TRUE]
    ELSE apply_loop(w, snapshot, x, y, 0)

apply_snapshot(w, snapshot, x, y) == apply_loop(w, snapshot, x, y, 0)

\* ------------------------------------------------------------------- draw
\* update() that leaves the font-selector texture as it was created.
update_forgets_set_texture(w) ==
    [chars |-> w.buffer_chars, fg |-> w.buffer_colors_fg,
     bg |-> w.buffer_colors_bg, set |-> ZeroVec(Cells),
     instances |-> w.instances]

\* update(): every CPU-side buffer is written to its GPU counterpart.
update(w) ==
    [chars |-> w.buffer_chars, fg |-> w.buffer_colors_fg,
     bg |-> w.buffer_colors_bg, set |-> w.set_buffer,
     instances |-> w.instances]

\* config.background_color, kept in Window::background_color.
background_color == BLACK

\* One thing draw() does: [call, arg].  The passes carry what they are
\* given: the clear colour, or <<vertex count, instance count>> of
\* render_pass.draw(0..6, 0..n).
Did(call, arg) == [call |-> call, arg |-> arg]

\* What draw() does once the surface texture is acquired, in program order,
\* with the instance pass drawing the instances 0..instance_range.
frame(instance_range) ==
    <<Did("clear render pass", background_color),
      Did("text render pass", <<6, 1>>),
      Did("instance render pass", <<6, instance_range>>),
      Did("submit", <<>>),
      Did("present", <<>>)>>

\* draw() whose instance pass draws the whole instance array.
draw_renders_whole_pool(w, g, surface_ok) ==
    [gpu |-> IF w.dirty THEN update(w) ELSE g,
     dirty |-> w.dirty,
     ret |-> [result |-> IF surface_ok THEN "Ok" ELSE "Err",
              calls |-> (IF w.dirty THEN <<Did("update", <<>>)>> ELSE <<>>)
                        \o (IF surface_ok THEN frame(Len(w.instances))
                            ELSE <<>>)]]

\* draw(): update() when dirty, then surface.get_current_texture()?
\* (surface_ok is whether it succeeded), then the three passes, submit
\* and present.  Returns the GPU copies, the dirty flag and what it did.
draw(w, g, surface_ok) ==
    [gpu |-> IF w.dirty THEN update(w) ELSE g,
     dirty |-> w.dirty,
     ret |-> [result |-> IF surface_ok THEN "Ok" ELSE "Err",
              calls |-> (IF w.dirty THEN <<Did("update", <<>>)>> ELSE <<>>)
                        \o (IF surface_ok THEN frame(w.instance_count)
                            ELSE <<>>)]]

\* ------------------------------------------------------------- event loop
\* The event loop as new_run starts it: the window system asks for the
\* first paint, nothing has exited, no callback has run; errors counts
\* the frames whose draw() returned Err and last_key holds each physical
\* key's most recent non-repeat event (both history).  wasm32 tells
\* whether the build has target_arch = "wasm32".  ui is the UIData the
\* game keeps for its buttons.  geometry is
\* config.padding, config.scale and (char_width, char_height); the
\* surface is configured with (pixel size + padding) * scale.
UiIds == {"ok", "back"}

\* UIData::default(), the entries of `data` as Options per ID.
UIData_default ==
    [selected |-> Some("root"),
     data |-> [i \in UiIds |-> None],
     events |-> <<>>,
     config |-> [key_select |-> Some("Enter")],
     last_mouse_position |-> <<0, 0>>]

Geometry(padding, scale, glyph) ==
    [padding |-> padding, scale |-> scale, glyph |-> glyph]
ExampleGeometry == Geometry(<<16, 16>>, <<2, 2>>, <<8, 8>>)
PhysicalKeys == {"KeyA", "ShiftLeft", "Enter"}

NewAppWith(geometry) ==
    LET size == <<(Cols * geometry.glyph[1] + geometry.padding[1])
                    * geometry.scale[1],
                  (Rows * geometry.glyph[2] + geometry.padding[2])
                    * geometry.scale[2]>>
    IN [pending |-> 1, exited |-> FALSE, calls |-> <<>>, errors |-> 0,
        keyboard |-> [keys |-> {}, letters |-> {},
                      mouse_position |-> <<0, 0>>, mouse_pressed |-> FALSE],
        last_key |-> [k \in PhysicalKeys |-> "none"],
        geometry |-> geometry,
        wasm32 |-> FALSE,
        surface_conf |-> size,
        surface |-> size,
        ui |-> UIData_default]

NewApp == NewAppWith(ExampleGeometry)

\* An f64 is an exact fraction <<numerator, denominator>>, denominator > 0.
F(v) == <<v, 1>>
f_sub(a, b) == <<a[1] * b[2] - b[1] * a[2], a[2] * b[2]>>
\* a / b for b > 0
f_div(a, b) == <<a[1] * b[2], a[2] * b[1]>>
\* f64::floor, then `as i32`
f_floor(a) == a[1] \div a[2]

\* The CursorMoved arm on one axis without .floor(): `as i32` alone cuts
\* the fraction off towards zero.
cursor_axis_truncates(position, padding, scale, char_size) ==
    LET x1 == f_sub(position, f_div(F(padding), F(2)))
        x2 == f_div(x1, F(scale))
        x3 == f_div(x2, F(char_size))
    IN IF x3[1] >= 0 THEN x3[1] \div x3[2] ELSE -((-x3[1]) \div x3[2])

\* The CursorMoved arm on one axis: position - padding / 2., then
\* / scale, then / char_width, then floor.
cursor_axis(position, padding, scale, char_size) ==
    LET x1 == f_sub(position, f_div(F(padding), F(2)))
        x2 == f_div(x1, F(scale))
        x3 == f_div(x2, F(char_size))
    IN f_floor(x3)

\* keyboard.mouse_position after CursorMoved { position }.
cursor_moved(a, position) ==
    <<cursor_axis(position[1], a.geometry.padding[1], a.geometry.scale[1],
                  a.geometry.glyph[1]),
      cursor_axis(position[2], a.geometry.padding[2], a.geometry.scale[2],
                  a.geometry.glyph[2])>>

\* The KeyboardInput arm that also tracks the keys of repeat events.
keyboard_input_tracks_repeats(kb, e) ==
    LET data == IF e.text # None THEN e.text[1][1] ELSE "?"
        kb1 == IF e.text = None \/ e.repeat THEN kb
               ELSE IF e.pressed THEN [kb EXCEPT !.letters = @ \cup {data}]
               ELSE [kb EXCEPT !.letters = @ \ {data}]
    IN [keyboard |-> IF e.pressed
                     THEN [kb1 EXCEPT !.keys = @ \cup {e.physical_key}]
                     ELSE [kb1 EXCEPT !.keys = @ \ {e.physical_key}],
        text_input |-> IF e.text # None /\ e.pressed THEN <<data>> ELSE <<>>]

\* The KeyboardInput arm: e is [physical_key, text, pressed, repeat], text
\* an Option of a non-empty string; returns the keyboard and the
\* characters handed to game.text_input.
keyboard_input(kb, e) ==
    LET data == IF e.text # None THEN e.text[1][1] ELSE "?"
    IN IF ~e.repeat
       THEN LET kb1 == IF e.text = None THEN kb
                       ELSE IF e.pressed
                       THEN [kb EXCEPT !.letters = @ \cup {data}]
                       ELSE [kb EXCEPT !.letters = @ \ {data}]
            IN [keyboard |-> IF e.pressed
                             THEN [kb1 EXCEPT !.keys = @ \cup {e.physical_key}]
                             ELSE [kb1 EXCEPT !.keys = @ \ {e.physical_key}],
                text_input |-> IF e.text # None /\ e.pressed
                               THEN <<data>> ELSE <<>>]
       ELSE [keyboard |-> kb,
             text_input |-> IF e.text # None /\ e.pressed
                            THEN <<data>> ELSE <<>>]

\* UIDataEntry::Boolean, Event::Pressed, Event::Unpressed
Boolean(d) == [type |-> "Boolean", value |-> d]
Pressed(id) == [event |-> "Pressed", id |-> id]
Unpressed(id) == [event |-> "Unpressed", id |-> id]

\* String::len: the length in UTF-8 bytes.
RECURSIVE str_len(_)
str_len(text) ==
    IF text = <<>> THEN 0
    ELSE (IF Head(text) = "€" THEN 3 ELSE 1) + str_len(Tail(text))

\* A SingleCharDecoration n, if any, applied at pos.
decoration(w, n, pos) ==
    IF n = None THEN w
    ELSE LET d == n[1]
             w1 == IF d.bg # None
                   THEN set_bg_at(w, pos[1], pos[2], d.bg[1]) ELSE w
             w2 == IF d.ch # None
                   THEN set_char_at(w1, pos[1], pos[2], d.ch[1]) ELSE w1
         IN IF d.fg # None
            THEN set_fg_at(w2, pos[1], pos[2], d.fg[1]) ELSE w2

\* <Button as UI>::render_and_process with PressedStyle::Flip: returns
\* the window and the UIData.
Button_render_and_process(b, start, w, keyboard, data) ==
    LET len == str_len(b.text)
        hovered == \/ /\ keyboard.mouse_position[1] >= start[1]
                      /\ keyboard.mouse_position[2] = start[2]
                      /\ keyboard.mouse_position[1] < start[1] + len
                   \/ (data.selected # None /\ data.selected[1] = b.id)
        pressed == \/ keyboard.mouse_pressed
                   \/ /\ data.config.key_select # None
                      /\ data.config.key_select[1] \in keyboard.keys
        highlight == hovered
        m == data.data[b.id]
        events == IF m = None \/ m[1].type # "Boolean" THEN data.events
                  ELSE IF m[1].value /\ ~(hovered /\ pressed)
                  THEN Append(data.events, Pressed(b.id))
                  ELSE IF ~m[1].value /\ hovered /\ pressed
                  THEN Append(data.events, Unpressed(b.id))
                  ELSE data.events
        left == IF b.decoration_left # None THEN 1 ELSE 0
        w1 == decoration(w, b.decoration_left, start)
        w2 == decoration(w1, b.decoration_right,
                         <<start[1] + left + len, start[2]>>)
    IN [window |-> IF highlight
                   THEN print_at(w2, start[1] + left, start[2], b.text,
                                 b.background_color, b.foreground_color)
                   ELSE print_at(w2, start[1], start[2] + left, b.text,
                                 b.foreground_color, b.background_color),
        data |-> [data EXCEPT !.events = events,
                              !.data[b.id] = Some(Boolean(hovered /\ pressed))]]

\* resize without the test on the new size.
resize_unchecked(a, new_size) ==
    [conf |-> new_size, surface |-> new_size, configured |-> TRUE]

\* Window::resize: the surface configuration, the configuration the
\* surface was given, and whether configure ran; the wasm32 build returns
\* at once.
resize(a, new_size) ==
    IF ~a.wasm32 /\ new_size[1] > 0 /\ new_size[2] > 0
    THEN [conf |-> new_size, surface |-> new_size, configured |-> TRUE]
    ELSE [conf |-> a.surface_conf, surface |-> a.surface, configured |-> FALSE]

\* The CloseRequested arm when close() is left out.
close_requested_without_close == <<"exit">>

\* The CloseRequested arm: game.close(), then event_loop.exit().
close_requested == <<"close", "exit">>

\* Yarl2Game::pre_draw: the game's frame update, here one of a few
\* sequences of Window calls.
pre_draw(w, game) ==
    CASE game = "idle" -> w
      [] game = "write" -> set_char_at_bin(w, 1, 1, 65)
      [] game = "clear_add" ->
            add_instance(clear(w),
                         InstanceData_new("i", WHITE, BLACK, <<0, 0>>, 0)).window
      [] game = "add" ->
            add_instance(w, InstanceData_new("H", RED, WHITE, <<1, 2>>, 0)).window

\* The rest of the RedrawRequested arm when a failed draw ends the arm.
after_draw_stops_on_error(result, exit) ==
    IF result = "Err" THEN <<>>
    ELSE <<"post_draw", "should_exit">>
         \o (IF exit THEN <<"close", "exit">> ELSE <<"request_redraw">>)

\* The rest of the arm when should_exit exits without game.close().
after_draw_exits_without_close(result, exit) ==
    <<"post_draw", "should_exit">>
    \o (IF exit THEN <<"exit">> ELSE <<"request_redraw">>)

\* The RedrawRequested arm after `let _ = self.window.draw();`: the result
\* is dropped; exit is what should_exit() returns.
after_draw(result, exit) ==
    <<"post_draw", "should_exit">>
    \o (IF exit THEN <<"close", "exit">> ELSE <<"request_redraw">>)

\* The number of times `name` occurs in a sequence of callbacks.
Count(calls, name) == Cardinality({i \in DOMAIN calls : calls[i] = name})

\* ---------------------------------------------------------------- actions
\* Window::new_inner: zeroed buffers, dirty = false, an instance array of
\* max_instances zeroed records, instance_count = 0; the textures and the
\* instance buffer start with the same zeroes.
Init ==
    /\ buffer_chars = ZeroVec(Cells)
    /\ buffer_colors_fg = ZeroVec(Cells * 4)
    /\ buffer_colors_bg = ZeroVec(Cells * 4)
    /\ set_buffer = ZeroVec(Cells)
    /\ dirty = FALSE
    /\ instances = [i \in 1 .. MaxInstances |-> ZeroInstance]
    /\ instance_count = 0
    /\ gpu = [chars |-> ZeroVec(Cells), fg |-> ZeroVec(Cells * 4),
              bg |-> ZeroVec(Cells * 4), set |-> ZeroVec(Cells),
              instances |-> [i \in 1 .. MaxInstances |-> ZeroInstance]]
    /\ snap = None
    /\ app = NewApp
    /\ hist = [grid |-> <<>>, ops |-> <<>>]
    /\ last = [op |-> "new", args |-> <<>>, ret |-> <<>>, panicked |-> FALSE]
    /\ steps = 0

\* The program is running: no call has panicked.
Running == ~last.panicked

\* A call of a Window method that leaves the window fields as in w.
Call(op, args, w, ret) ==
    /\ buffer_chars' = w.buffer_chars
    /\ buffer_colors_fg' = w.buffer_colors_fg
    /\ buffer_colors_bg' = w.buffer_colors_bg
    /\ set_buffer' = w.set_buffer
    /\ dirty' = w.dirty
    /\ instances' = w.instances
    /\ instance_count' = w.instance_count
    /\ last' = [op |-> op, args |-> args, ret |-> ret, panicked |-> w.panicked]
    /\ hist' = IF op = "take_snapshot" /\ ~w.panicked
               THEN [grid |-> grid, ops |-> <<>>]
               ELSE IF snap # None /\ Len(hist.ops) < 2
               THEN [hist EXCEPT !.ops = Append(@, op)]
               ELSE IF snap # None
               THEN [hist EXCEPT !.ops = <<"more">>]
               ELSE hist
    /\ steps' = steps + 1

SetFgAt(x, y, fg) ==
    /\ Call("set_fg_at", <<x, y, fg>>, set_fg_at(Self, x, y, fg), <<>>)
    /\ UNCHANGED <<gpu, snap, app>>

SetBgAt(x, y, bg) ==
    /\ Call("set_bg_at", <<x, y, bg>>, set_bg_at(Self, x, y, bg), <<>>)
    /\ UNCHANGED <<gpu, snap, app>>

SetSetAt(x, y, value) ==
    /\ Call("set_set_at", <<x, y, value>>, set_set_at(Self, x, y, value), <<>>)
    /\ UNCHANGED <<gpu, snap, app>>

SetCharAt(x, y, character) ==
    /\ Call("set_char_at", <<x, y, character>>,
            set_char_at(Self, x, y, character), <<>>)
    /\ UNCHANGED <<gpu, snap, app>>

SetCharAtBin(x, y, character) ==
    /\ Call("set_char_at_bin", <<x, y, character>>,
            set_char_at_bin(Self, x, y, character), <<>>)
    /\ UNCHANGED <<gpu, snap, app>>

PrintAtSet(x, y, text, fg, bg, set) ==
    /\ Call("print_at_set", <<x, y, text, fg, bg, set>>,
            print_at_set(Self, x, y, text, fg, bg, set), <<>>)
    /\ UNCHANGED <<gpu, snap, app>>

DrawRect(x, y, width, height, filled, f) ==
    /\ Call("draw_rect", <<x, y, width, height, filled, f>>,
            draw_rect(Self, x, y, width, height, filled, f), <<>>)
    /\ UNCHANGED <<gpu, snap, app>>

Clear ==
    /\ Call("clear", <<>>, clear(Self), <<>>)
    /\ UNCHANGED <<gpu, snap, app>>

AddInstance(instance) ==
    /\ LET r == add_instance(Self, instance)
       IN Call("add_instance", <<instance>>, r.window, r.ret)
    /\ UNCHANGED <<gpu, snap, app>>

\* take_snapshot takes &self: the window is untouched; a panic ends the run.
TakeSnapshot(x, y, width, height) ==
    /\ LET r == take_snapshot(Self, x, y, width, height)
       IN /\ Call("take_snapshot", <<x, y, width, height>>,
                  [Self EXCEPT !.panicked = r.panicked], r.snapshot)
          /\ snap' = IF r.panicked THEN snap ELSE r.snapshot
    /\ UNCHANGED <<gpu, app>>

ApplySnapshot(x, y) ==
    /\ snap # None
    /\ Call("apply_snapshot", <<x, y>>, apply_snapshot(Self, snap[1], x, y), <<>>)
    /\ UNCHANGED <<gpu, snap, app>>

\* apply_snapshot of a Snapshot the caller built (its fields are public).
ApplyBuiltSnapshot(snapshot, x, y) ==
    /\ Call("apply_snapshot", <<x, y, snapshot>>,
            apply_snapshot(Self, snapshot, x, y), <<>>)
    /\ UNCHANGED <<gpu, snap, app>>

TextBuilderPrint(tb, pos, width_end, return_x) ==
    /\ LET r == TextBuilder_print(tb, Self, pos, width_end, return_x)
       IN Call("TextBuilder::print", <<tb, pos, width_end, return_x>>,
               r.window, r.ret)
    /\ UNCHANGED <<gpu, snap, app>>

TextBuilderPrintSubCutoff(tb, pos, width_end, col_sub, return_x, cutoff_y) ==
    /\ LET r == print_sub_cutoff(tb, Self, pos, width_end, col_sub, return_x,
                                 cutoff_y)
       IN Call("TextBuilder::print_sub_cutoff",
               <<tb, pos, width_end, col_sub, return_x, cutoff_y>>,
               r.window, r.ret)
    /\ UNCHANGED <<gpu, snap, app>>

Draw(surface_ok) ==
    /\ LET r == draw(Self, gpu, surface_ok)
       IN /\ Call("draw", <<>>, [Self EXCEPT !.dirty = r.dirty], r.ret)
          /\ gpu' = r.gpu
    /\ UNCHANGED <<snap, app>>

\* window_event(RedrawRequested): game.event, pre_draw, draw, then the
\* rest of the arm; one pending redraw is consumed.
RedrawRequested(game, surface_ok, exit) ==
    /\ app.pending > 0
    /\ ~app.exited
    /\ LET w1 == pre_draw(Self, game)
           r == draw(w1, gpu, surface_ok)
           rest == after_draw(r.ret.result, exit)
       IN /\ Call("RedrawRequested", <<game, surface_ok, exit>>,
                  [w1 EXCEPT !.dirty = r.dirty], r.ret)
          /\ gpu' = r.gpu
          /\ app' = [app EXCEPT
                       !.pending = @ - 1 + Count(rest, "request_redraw"),
                       !.exited = Count(rest, "exit") > 0,
                       !.calls = <<"event", "pre_draw", "draw">> \o rest,
                       !.errors = @ + (IF r.ret.result = "Err" THEN 1 ELSE 0)]
    /\ UNCHANGED snap

\* An event other than RedrawRequested: game.event, then its arm, which
\* leaves the event loop as in a and makes the calls `arm`; the window's
\* grid and pool are not touched.
WindowEvent(name, args, a, arm) ==
    /\ ~app.exited
    /\ Call(name, args, Self, <<>>)
    /\ app' = [a EXCEPT !.calls = <<"event">> \o arm,
                        !.exited = Count(arm, "exit") > 0]
    /\ UNCHANGED <<gpu, snap>>

CloseRequested == WindowEvent("CloseRequested", <<>>, app, close_requested)

Resized(new_size) ==
    LET r == resize(app, new_size)
    IN WindowEvent("Resized", <<new_size>>,
                   [app EXCEPT !.surface_conf = r.conf, !.surface = r.surface],
                   <<"resize">>
                   \o (IF r.configured THEN <<"configure">> ELSE <<>>))

MouseInput(button, pressed) ==
    WindowEvent("MouseInput", <<button, pressed>>,
                IF button = "Left"
                THEN [app EXCEPT !.keyboard.mouse_pressed = pressed]
                ELSE app,
                <<>>)

CursorMoved(position) ==
    WindowEvent("CursorMoved", <<position>>,
                [app EXCEPT !.keyboard.mouse_position =
                                cursor_moved(app, position)],
                <<>>)

\* The game renders a button from pre_draw with its UIData and the
\* keyboard of the event loop.
ButtonRender(b, start) ==
    LET r == Button_render_and_process(b, start, Self, app.keyboard, app.ui)
    IN /\ ~app.exited
       /\ Call("Button::render_and_process", <<b, start>>, r.window, <<>>)
       /\ app' = [app EXCEPT !.ui = r.data]
       /\ UNCHANGED <<gpu, snap>>

\* The game moves the keyboard selection: UIData::selected is public.
Select(selected) ==
    /\ ~app.exited
    /\ Call("select", <<selected>>, Self, <<>>)
    /\ app' = [app EXCEPT !.ui.selected = selected]
    /\ UNCHANGED <<gpu, snap>>

\* last_key records the event when it is not a repeat.
KeyboardInput(e) ==
    LET r == keyboard_input(app.keyboard, e)
    IN WindowEvent("KeyboardInput", <<e>>,
                   [app EXCEPT !.keyboard = r.keyboard,
                               !.last_key[e.physical_key] =
                                   IF e.repeat THEN @
                                   ELSE IF e.pressed THEN "press"
                                   ELSE "release"],
                   [i \in 1 .. Len(r.text_input) |-> "text_input"])

\* ----------------------------------------------------------------- inputs
\* Cells inside the grid, and coordinates just outside each edge.
InsidePoints == {<<0, 0>>, <<1, 1>>, <<Cols - 1, Rows - 1>>}
OutsidePoints == {<<-1, 0>>, <<0, -1>>, <<Cols, 0>>, <<0, Rows>>}
Points == InsidePoints \cup OutsidePoints
Colours == {TRANSPARENT, WHITE}
Glyphs == {0, 65}
Characters == {"A", "€"}
Selectors == {0, Layers - 1, Layers}
SomeInstances ==
    {InstanceData_new("A", WHITE, TRANSPARENT, <<0, 0>>, 0),
     InstanceData_new("H", RED, WHITE, <<1, 2>>, Layers - 1)}

\* The four optional fields of a draw_rect call.
RectFields ==
    {[fg |-> Some(WHITE), bg |-> None, ch |-> Some("A"), set |-> None],
     [fg |-> None, bg |-> Some(RED), ch |-> None, set |-> Some(Layers - 1)]}

\* Instances as the game builds them, one with the selector Layers.
AnyInstances ==
    SomeInstances \cup {InstanceData_new("A", WHITE, BLACK, <<0, 0>>, Layers)}

\* ------------------------------------------------- the setters on their own
NextSet ==
    \/ /\ Running /\ steps < MaxSetSteps
       /\ \E p \in Points, fg \in Colours : SetFgAt(p[1], p[2], fg)
    \/ /\ Running /\ steps < MaxSetSteps
       /\ \E p \in Points, bg \in Colours : SetBgAt(p[1], p[2], bg)
    \/ /\ Running /\ steps < MaxSetSteps
       /\ \E p \in Points, v \in Selectors : SetSetAt(p[1], p[2], v)
    \/ /\ Running /\ steps < MaxSetSteps
       /\ \E p \in Points, c \in Characters : SetCharAt(p[1], p[2], c)
    \/ /\ Running /\ steps < MaxSetSteps
       /\ \E p \in Points, c \in Glyphs : SetCharAtBin(p[1], p[2], c)

SpecSet == Init /\ [][NextSet]_vars

\* ------------------------------------- the instance pool, clear and draw
NextPool ==
    \/ /\ Running /\ steps < MaxPoolSteps
       /\ \E i \in AnyInstances : AddInstance(i)
    \/ /\ Running /\ steps < MaxPoolSteps
       /\ Clear
    \/ /\ Running /\ steps < MaxPoolSteps
       /\ \E ok \in BOOLEAN : Draw(ok)
    \/ /\ Running /\ steps < MaxPoolSteps
       /\ SetCharAtBin(1, 1, 65)

SpecPool == Init /\ [][NextPool]_vars

\* ------------------------------------------------------------ snapshots
\* Rectangles for take_snapshot: accepted ones, and ones that touch or pass
\* the last column or row.
Rectangles ==
    {<<0, 0, 2, 2>>, <<1, 0, 2, 1>>, <<0, 1, 1, 1>>, <<0, 0, Cols - 1, Rows - 1>>,
     <<0, 0, 0, 1>>, <<0, 0, Cols, Rows>>, <<Cols - 1, 0, 1, 1>>, <<0, Rows - 2, 1, 2>>,
     <<0, 0, Cols - 2, Rows - 1>>, <<0, 0, Cols - 1, Rows - 2>>}
Offsets == {<<0, 0>>, <<1, 0>>, <<0, 1>>, <<-1, -1>>, <<Cols - 1, Rows - 1>>,
            <<Cols, 0>>}

\* A grid as earlier setter calls leave it: cell (x, y) holds the glyph
\* 1 + x + y * Cols, colours that carry the same number, and the font
\* selector (x + y) % Layers; the pattern is shifted by `seed`.
PatternWindow(seed) ==
    LET v(i) == 1 + ((i + seed) % 250)
        cx(i) == i % Cols
        cy(i) == i \div Cols
    IN [buffer_chars |-> [i \in 0 .. Cells - 1 |-> v(i)],
        buffer_colors_fg |->
            [j \in 0 .. Cells * 4 - 1 |-> (v(j \div 4) + 10 * (1 + (j % 4))) % 256],
        buffer_colors_bg |->
            [j \in 0 .. Cells * 4 - 1 |-> (v(j \div 4) + 50 * (1 + (j % 4))) % 256],
        set_buffer |-> [i \in 0 .. Cells - 1 |-> (cx(i) + cy(i) + seed) % Layers]]

\* The window after the game drew one of two patterns with the setters.
InitSnap ==
    /\ \E seed \in {0, 1} :
         LET w == PatternWindow(seed)
         IN /\ buffer_chars = w.buffer_chars
            /\ buffer_colors_fg = w.buffer_colors_fg
            /\ buffer_colors_bg = w.buffer_colors_bg
            /\ set_buffer = w.set_buffer
    /\ dirty = TRUE
    /\ instances = [i \in 1 .. MaxInstances |-> ZeroInstance]
    /\ instance_count = 0
    /\ gpu = [chars |-> ZeroVec(Cells), fg |-> ZeroVec(Cells * 4),
              bg |-> ZeroVec(Cells * 4), set |-> ZeroVec(Cells),
              instances |-> [i \in 1 .. MaxInstances |-> ZeroInstance]]
    /\ snap = None
    /\ app = NewApp
    /\ hist = [grid |-> <<>>, ops |-> <<>>]
    /\ last = [op |-> "new", args |-> <<>>, ret |-> <<>>, panicked |-> FALSE]
    /\ steps = 0

NextSnap ==
    \/ /\ Running /\ steps < MaxSnapSteps
       /\ \E r \in Rectangles : TakeSnapshot(r[1], r[2], r[3], r[4])
    \/ /\ Running /\ steps < MaxSnapSteps
       /\ Clear
    \/ /\ Running /\ steps < MaxSnapSteps
       /\ \E o \in Offsets : ApplySnapshot(o[1], o[2])
    \/ /\ Running /\ steps < MaxSnapSteps
       /\ snap # None
       /\ ApplySnapshot(snap[1].begin[1], snap[1].begin[2])

SpecSnap == InitSnap /\ [][NextSnap]_vars

\* ------------------------------------------------------------- printing
\* Starts left of the grid, at its first column, two columns before its
\* right edge and past it; the row is always row 1.
PrintStarts == {-1, 0, Cols - 2, Cols}
PrintTexts == {<<"H", "i">>, <<"A", "€", "A">>}
PrintOverrides ==
    {<<None, None, None>>, <<Some(WHITE), Some(RED), Some(Layers - 1)>>,
     <<Some(RED), None, None>>}

NextPrint ==
    \/ /\ Running /\ steps < MaxPrintSteps
       /\ \E x \in PrintStarts, t \in PrintTexts, o \in PrintOverrides :
            PrintAtSet(x, 1, t, o[1], o[2], o[3])
    \/ /\ Running /\ steps < MaxPrintSteps
       /\ \E x \in {0, Cols - 2}, n \in {2, 3} : TakeSnapshot(x, 1, n, 1)
    \/ /\ Running /\ steps < MaxPrintSteps
       /\ Clear

SpecPrint == Init /\ [][NextPrint]_vars

\* ------------------------------------------------------------ rectangles
\* <<x, y, width, height>>: the 5x3 box, boxes inside the grid, a single
\* cell, a row, a column, boxes that overhang the top-left and the
\* bottom-right corner, and an empty one.
Boxes ==
    {<<0, 0, 5, 3>>, <<1, 0, 3, 3>>, <<1, 1, 1, 1>>, <<0, 1, 3, 1>>,
     <<2, 0, 1, 3>>, <<-1, -1, 3, 3>>, <<Cols - 2, Rows - 2, 3, 3>>,
     <<0, 0, 0, 2>>, <<2, 0, -1, 2>>, <<1, 1, 2, 0>>}

NextRect ==
    \/ /\ Running /\ steps < MaxRectSteps
       /\ \E b \in Boxes, filled \in BOOLEAN, f \in RectFields :
            DrawRect(b[1], b[2], b[3], b[4], filled, f)
    \/ /\ Running /\ steps < MaxRectSteps
       /\ Clear

SpecRect == Init /\ [][NextRect]_vars

\* ------------------------------------------------------- font selectors
\* Builders whose segments carry the selectors 0, Layers - 1 and Layers.
Builders ==
    {TextBuilder_text(TextBuilder_create, <<"H", "i">>),
     TextBuilder_text(TextBuilder_set(TextBuilder_fg(TextBuilder_create, RED),
                                      Layers - 1), <<"A", "€", "A">>),
     TextBuilder_text(
         TextBuilder_set(TextBuilder_text(TextBuilder_create, <<"A">>), Layers),
         <<"H">>)}
\* A 1x1 Snapshot written by hand, with the font selector v.
BuiltSnapshot(v) ==
    [begin |-> <<0, 0>>, size |-> <<1, 1>>, fg |-> [j \in 0 .. 3 |-> 255],
     bg |-> ZeroVec(4), set |-> [k \in 0 .. 0 |-> v],
     text |-> [k \in 0 .. 0 |-> 65]]

NextFont ==
    \/ /\ Running /\ steps < MaxFontSteps
       /\ \E p \in {<<1, 1>>, <<Cols, 0>>}, v \in Selectors :
            SetSetAt(p[1], p[2], v)
    \/ /\ Running /\ steps < MaxFontSteps
       /\ \E x \in {0, Cols - 1}, v \in Selectors :
            PrintAtSet(x, 0, <<"A", "H">>, None, None, Some(v))
    \/ /\ Running /\ steps < MaxFontSteps
       /\ \E filled \in BOOLEAN, v \in Selectors :
            DrawRect(Cols - 2, 1, 3, 2, filled,
                     [fg |-> None, bg |-> None, ch |-> None, set |-> Some(v)])
    \/ /\ Running /\ steps < MaxFontSteps
       /\ TakeSnapshot(0, 0, 2, 2)
    \/ /\ Running /\ steps < MaxFontSteps
       /\ \E o \in {<<1, 0>>, <<-1, 1>>} : ApplySnapshot(o[1], o[2])
    \/ /\ Running /\ steps < MaxFontSteps
       /\ \E v \in Selectors, x \in {2, Cols} :
            ApplyBuiltSnapshot(BuiltSnapshot(v), x, 2)
    \/ /\ Running /\ steps < MaxFontSteps
       /\ \E tb \in Builders, x \in {0, Cols - 1} :
            TextBuilderPrint(tb, <<x, 1>>, Cols - 2, 0)
    \/ /\ Running /\ steps < MaxFontSteps
       /\ Clear

SpecFont == Init /\ [][NextFont]_vars

\* ----------------------------------------------------------- the frames
GameSteps == {"idle", "write", "clear_add", "add"}

NextLoop ==
    \/ /\ Running /\ steps < MaxLoopSteps
       /\ \E game \in GameSteps, ok \in BOOLEAN, exit \in BOOLEAN :
            RedrawRequested(game, ok, exit)
    \/ /\ Running /\ steps < MaxLoopSteps
       /\ CloseRequested

SpecLoop == Init /\ [][NextLoop]_vars

\* ------------------------------------------------------- wrapped text
\* A text of two segments that differ in colour and font, and a short one.
WrapBuilders ==
    {TextBuilder_text(
         TextBuilder_set(TextBuilder_fg(
             TextBuilder_text(TextBuilder_create, <<"H", "i">>), RED),
             Layers - 1),
         <<"A", "H", "A">>),
     TextBuilder_text(TextBuilder_bg(TextBuilder_create, RED), <<"i", "A">>)}
\* Starts left of, at and right of width_end + 1; wrap widths; columns to
\* return to, the second one at width_end + 1 of the narrow width.
WrapStarts == {<<0, 0>>, <<2, 1>>, <<Cols - 1, 0>>}
WrapEnds == {1, Cols - 2}
WrapReturns == {0, 2}
Darkenings == {<<10, 10, 10, 0>>}

NextWrap ==
    \/ /\ Running /\ steps < MaxWrapSteps
       /\ \E tb \in WrapBuilders, pos \in WrapStarts, width_end \in WrapEnds,
             return_x \in WrapReturns :
            TextBuilderPrint(tb, pos, width_end, return_x)
    \/ /\ Running /\ steps < MaxWrapSteps
       /\ \E tb \in WrapBuilders, pos \in {<<0, 0>>, <<2, 1>>},
             col_sub \in Darkenings, limit \in 0 .. Rows - 1 :
            TextBuilderPrintSubCutoff(tb, pos, 1, col_sub, 0, Some(limit))

SpecWrap == Init /\ [][NextWrap]_vars

\* -------------------------------------------------------------- buttons
\* Two buttons with different ids, the second with a decoration on its
\* left; both start at the cell the pointer is in when the window opens.
Buttons ==
    {[id |-> "ok", text |-> <<"H", "i">>, foreground_color |-> Some(WHITE),
      background_color |-> Some(BLACK), decoration_left |-> None,
      decoration_right |-> None],
     [id |-> "back", text |-> <<"A">>, foreground_color |-> None,
      background_color |-> None,
      decoration_left |-> Some([fg |-> Some(RED), bg |-> None,
                                ch |-> Some("H")]),
      decoration_right |-> None]}

NextUi ==
    \/ /\ Running /\ steps < MaxUiSteps
       /\ \E b \in Buttons : ButtonRender(b, <<0, 0>>)
    \/ /\ Running /\ steps < MaxUiSteps
       /\ \E p \in {F(8), F(40)} : CursorMoved(<<p, F(8)>>)
    \/ /\ Running /\ steps < MaxUiSteps
       /\ \E pressed \in BOOLEAN : MouseInput("Left", pressed)
    \/ /\ Running /\ steps < MaxUiSteps
       /\ \E pressed \in BOOLEAN :
            KeyboardInput([physical_key |-> "Enter", text |-> None,
                           pressed |-> pressed, repeat |-> FALSE])
    \/ /\ Running /\ steps < MaxUiSteps
       /\ \E selected \in {Some("ok"), None} : Select(selected)

SpecUi == Init /\ [][NextUi]_vars

\* ------------------------------------------------------------- keyboard
\* Key events: the A key alone (text "a"), with shift held (text "A"), and
\* events that carry no text; presses, releases and repeats.
KeyEvents ==
    [physical_key : {"KeyA", "ShiftLeft"},
     text : {None, Some(<<"a">>), Some(<<"A">>)},
     pressed : BOOLEAN, repeat : BOOLEAN]

NextKeys ==
    \/ /\ Running /\ steps < MaxKeySteps
       /\ \E e \in KeyEvents : KeyboardInput(e)
    \/ /\ Running /\ steps < MaxKeySteps
       /\ \E pressed \in BOOLEAN : MouseInput("Left", pressed)

SpecKeys == Init /\ [][NextKeys]_vars

\* ------------------------------------------- pointer, resize and close
\* Two configurations: the one of the worked example, and one with an odd
\* padding and axes that differ.
Geometries == {ExampleGeometry, Geometry(<<5, 3>>, <<1, 3>>, <<8, 16>>)}
\* Pointer positions in pixels, on pixel boundaries and between them.
Pixels == {F(0), F(7), F(8), F(23), F(24), <<49, 2>>, F(40)}
Sizes == {<<0, 0>>, <<0, 80>>, <<112, 0>>, <<200, 100>>, <<1, 1>>}

InitInput ==
    /\ buffer_chars = ZeroVec(Cells)
    /\ buffer_colors_fg = ZeroVec(Cells * 4)
    /\ buffer_colors_bg = ZeroVec(Cells * 4)
    /\ set_buffer = ZeroVec(Cells)
    /\ dirty = FALSE
    /\ instances = [i \in 1 .. MaxInstances |-> ZeroInstance]
    /\ instance_count = 0
    /\ gpu = [chars |-> ZeroVec(Cells), fg |-> ZeroVec(Cells * 4),
              bg |-> ZeroVec(Cells * 4), set |-> ZeroVec(Cells),
              instances |-> [i \in 1 .. MaxInstances |-> ZeroInstance]]
    /\ snap = None
    /\ \E g \in Geometries, target \in BOOLEAN :
          app = [NewAppWith(g) EXCEPT !.wasm32 = target]
    /\ hist = [grid |-> <<>>, ops |-> <<>>]
    /\ last = [op |-> "new", args |-> <<>>, ret |-> <<>>, panicked |-> FALSE]
    /\ steps = 0

NextInput ==
    \/ /\ Running /\ steps < MaxInputSteps
       /\ \E px \in Pixels, py \in {F(0), F(24), F(40)} : CursorMoved(<<px, py>>)
    \/ /\ Running /\ steps < MaxInputSteps
       /\ \E b \in {"Left", "Right"}, pressed \in BOOLEAN : MouseInput(b, pressed)
    \/ /\ Running /\ steps < MaxInputSteps
       /\ \E z \in Sizes : Resized(z)
    \/ /\ Running /\ steps < MaxInputSteps
       /\ SetCharAtBin(1, 1, 65)
    \/ /\ Running /\ steps < MaxInputSteps
       /\ CloseRequested

SpecInput == InitInput /\ [][NextInput]_vars

\* ------------------------------------------------------ every operation
Texts == {<<"H", "i">>, <<"A", "€", "A">>}
PrintOptions == {<<None, None, None>>, <<Some(WHITE), Some(RED), Some(Layers - 1)>>}

Next ==
    \/ /\ Running /\ steps < MaxSteps
       /\ \E p \in {<<1, 1>>, <<Cols, 0>>} : SetFgAt(p[1], p[2], WHITE)
    \/ /\ Running /\ steps < MaxSteps
       /\ \E p \in {<<0, 0>>, <<0, -1>>} : SetBgAt(p[1], p[2], RED)
    \/ /\ Running /\ steps < MaxSteps
       /\ \E v \in Selectors : SetSetAt(Cols - 1, Rows - 1, v)
    \/ /\ Running /\ steps < MaxSteps
       /\ \E c \in Characters : SetCharAt(1, 0, c)
    \/ /\ Running /\ steps < MaxSteps
       /\ \E p \in {<<0, 1>>, <<0, Rows>>} : SetCharAtBin(p[1], p[2], 65)
    \/ /\ Running /\ steps < MaxSteps
       /\ \E x \in {-1, Cols - 2}, t \in Texts, o \in PrintOptions :
            PrintAtSet(x, 1, t, o[1], o[2], o[3])
    \/ /\ Running /\ steps < MaxSteps
       /\ \E filled \in BOOLEAN, f \in RectFields :
            DrawRect(0, 0, 3, 3, filled, f)
    \/ /\ Running /\ steps < MaxSteps
       /\ Clear
    \/ /\ Running /\ steps < MaxSteps
       /\ \E i \in SomeInstances : AddInstance(i)
    \/ /\ Running /\ steps < MaxSteps
       /\ \E r \in {<<0, 0, 2, 2>>, <<1, 1, Cols - 1, 1>>} :
            TakeSnapshot(r[1], r[2], r[3], r[4])
    \/ /\ Running /\ steps < MaxSteps
       /\ \E o \in {<<0, 0>>, <<Cols - 1, 1>>} : ApplySnapshot(o[1], o[2])
    \/ /\ Running /\ steps < MaxSteps
       /\ \E ok \in BOOLEAN : Draw(ok)

Spec == Init /\ [][Next]_vars

\* ================================================================ claims
\* What the claims say about cells, stated on the grid's four buffers
\* g = <<glyphs, fg, bg, font selectors>>.
FlatIndex(x, y) == x + y * Cols
OnGrid(x, y) == x \in 0 .. Cols - 1 /\ y \in 0 .. Rows - 1
GridCells == (0 .. Cols - 1) \X (0 .. Rows - 1)
\* <<glyph, fg, bg, font selector>> of cell (x, y)
CellOf(g, x, y) ==
    LET i == FlatIndex(x, y)
    IN <<g[1][i],
         <<g[2][4 * i], g[2][4 * i + 1], g[2][4 * i + 2], g[2][4 * i + 3]>>,
         <<g[3][4 * i], g[3][4 * i + 1], g[3][4 * i + 2], g[3][4 * i + 3]>>,
         g[4][i]>>
ZeroCell == <<0, <<0, 0, 0, 0>>, <<0, 0, 0, 0>>, 0>>

SetterOps == {"set_char_at", "set_char_at_bin", "set_fg_at", "set_bg_at",
              "set_set_at"}
\* The channel of CellOf a setter writes.
ChannelOfOp(op) ==
    CASE op \in {"set_char_at", "set_char_at_bin"} -> 1
      [] op = "set_fg_at" -> 2
      [] op = "set_bg_at" -> 3
      [] op = "set_set_at" -> 4
\* The values a setter accepts, and the value it is asked to store.
Accepted(op, v) ==
    CASE op = "set_char_at" -> encode(v) # None
      [] op = "set_set_at" -> v < Layers
      [] OTHER -> TRUE
Written(op, v) == IF op = "set_char_at" THEN encode(v)[1] ELSE v

\* C1: a draw() leaves dirty = false (so that the next draw() with no
\* mutation in between uploads nothing).  The code never clears the flag.
C1_DrawClearsDirty == (last.op = "draw") => (dirty = FALSE)

\* C2: a setter called on an in-range cell with an accepted value stores
\* the value at flat index x + y*cols of its channel, changes no other
\* cell or channel nor the instance pool, and leaves
\* dirty = (dirty before) OR (stored value differed from the written one).
C2_SetterStoresValue ==
    [][(/\ last'.op \in SetterOps
        /\ OnGrid(last'.args[1], last'.args[2])
        /\ Accepted(last'.op, last'.args[3]))
       => LET x == last'.args[1]
              y == last'.args[2]
              ch == ChannelOfOp(last'.op)
              v == Written(last'.op, last'.args[3])
          IN /\ CellOf(grid', x, y)[ch] = v
             /\ \A c \in GridCells, k \in 1 .. 4 :
                    (c # <<x, y>> \/ k # ch)
                    => CellOf(grid', c[1], c[2])[k] = CellOf(grid, c[1], c[2])[k]
             /\ dirty' = (dirty \/ CellOf(grid, x, y)[ch] # v)
             /\ ~last'.panicked
             /\ UNCHANGED pool]_vars

\* A setter wrote the value a cell already held and dirty stayed false.
C2_Witness ==
    /\ last.op \in SetterOps
    /\ OnGrid(last.args[1], last.args[2])
    /\ Accepted(last.op, last.args[3])
    /\ ~dirty

\* C3: a setter called with (x, y) outside the grid (negative, x = cols or
\* y = rows), and for set_set_at a selector below the layer count, changes
\* no buffer, not the dirty flag, not the instance pool, and does not fail.
C3_OutOfRangeIsNoOp ==
    [][(/\ last'.op \in SetterOps
        /\ ~OnGrid(last'.args[1], last'.args[2])
        /\ Accepted(last'.op, last'.args[3]))
       => (UNCHANGED <<grid, dirty, pool>> /\ ~last'.panicked)]_vars

\* set_set_at was called with x = cols on a grid that is not blank.
C3_Witness ==
    /\ last.op = "set_set_at"
    /\ last.args[1] = Cols
    /\ last.args[3] = Layers - 1
    /\ ~last.panicked
    /\ dirty

\* C4: after clear() every cell has glyph 0, fg and bg (0,0,0,0) and font
\* selector 0, the instance count is 0 and dirty is true, from any state.
C4_ClearResets ==
    (last.op = "clear")
    => /\ \A c \in GridCells : CellOf(grid, c[1], c[2]) = ZeroCell
       /\ instance_count = 0
       /\ dirty = TRUE

\* clear() was the first call, on a blank grid with no live instance.
C4_Witness == last.op = "clear" /\ steps = 1 /\ dirty

\* C5: add_instance on a pool with count < max_instances returns true,
\* stores the record at slot `count`, adds one to the count and raises
\* dirty; on a full pool it returns false and changes nothing.
C5_AddInstanceSaturates ==
    [][(last'.op = "add_instance")
       => /\ IF instance_count < MaxInstances
             THEN /\ last'.ret = TRUE
                  /\ instances' =
                       [instances EXCEPT ![instance_count + 1] = last'.args[1]]
                  /\ instance_count' = instance_count + 1
                  /\ dirty' = TRUE
             ELSE /\ last'.ret = FALSE
                  /\ UNCHANGED <<instances, instance_count, dirty>>
          /\ UNCHANGED grid]_vars

\* An add_instance on the full pool returned false.
C5_Witness ==
    /\ last.op = "add_instance"
    /\ last.ret = FALSE
    /\ instance_count = MaxInstances

\* C6: clear() sets the cursor to zero and leaves the slots as they are;
\* the add_instance that follows succeeds, overwrites slot 0 and makes the
\* count 1, the other slots keeping their stale records.
C6_ClearResetsCursorOnly ==
    [][/\ (last'.op = "clear")
          => (instance_count' = 0 /\ instances' = instances)
       /\ (last.op = "clear" /\ last'.op = "add_instance")
          => /\ last'.ret = TRUE
             /\ instance_count' = 1
             /\ instances'[1] = last'.args[1]
             /\ \A i \in 2 .. MaxInstances : instances'[i] = instances[i]]_vars

\* The pool was filled, cleared, and one instance added: the count is 1
\* and the last slot still holds the record written when the pool was full.
C6_Witness ==
    /\ last.op = "add_instance"
    /\ instance_count = 1
    /\ MaxInstances >= 2
    /\ instances[MaxInstances] # ZeroInstance

\* C7: in every reachable state the instance count is within
\* 0..max_instances and the instance array has length max_instances.
C7_CursorWithinCapacity ==
    /\ instance_count \in 0 .. MaxInstances
    /\ Len(instances) = MaxInstances

\* One more add_instance was tried on the full pool.
C7_Witness ==
    /\ last.op = "add_instance"
    /\ last.ret = FALSE
    /\ instance_count = MaxInstances
    /\ Len(instances) = MaxInstances

\* Whether cell c lies in the rectangle of origin o and size z.
InRect(c, o, z) ==
    /\ c[1] >= o[1] /\ c[1] < o[1] + z[1]
    /\ c[2] >= o[2] /\ c[2] < o[2] + z[2]

\* C8: take_snapshot(x,y,w,h), clear(), apply_snapshot(snapshot, x, y)
\* restores every cell of the rectangle to its value before the clear and
\* leaves every other cell zero.
C8_SnapshotRoundTrip ==
    (/\ snap # None
     /\ hist.ops = <<"clear", "apply_snapshot">>
     /\ last.args = snap[1].begin)
    => /\ ~last.panicked
       /\ \A c \in GridCells :
            CellOf(grid, c[1], c[2]) =
                IF InRect(c, snap[1].begin, snap[1].size)
                THEN CellOf(hist.grid, c[1], c[2])
                ELSE ZeroCell

\* A 2x2 snapshot was taken, the grid cleared and the snapshot applied at
\* its origin.
C8_Witness ==
    /\ snap # None
    /\ hist.ops = <<"clear", "apply_snapshot">>
    /\ last.args = snap[1].begin
    /\ snap[1].size = <<2, 2>>
    /\ CellOf(grid, 1, 1) # ZeroCell

C10_ApplySnapshotClips ==
    [][(last'.op = "apply_snapshot")
       => LET dx == last'.args[1]
              dy == last'.args[2]
              o == snap[1].begin
              z == snap[1].size
          IN /\ ~last'.panicked
             /\ \A c \in GridCells :
                  CellOf(grid', c[1], c[2]) =
                      IF InRect(c, <<dx, dy>>, z)
                      THEN CellOf(hist.grid, o[1] + (c[1] - dx), o[2] + (c[2] - dy))
                      ELSE CellOf(grid, c[1], c[2])]_vars

\* A snapshot at least two cells wide and high was applied at (-1, -1):
\* cell (0, 0) received what was captured from (origin_x+1, origin_y+1).
C10_Witness ==
    /\ last.op = "apply_snapshot"
    /\ last.args = <<-1, -1>>
    /\ ~last.panicked
    /\ snap[1].size[1] >= 2 /\ snap[1].size[2] >= 2
    /\ hist.ops = <<"clear", "apply_snapshot">>
    /\ CellOf(grid, 0, 0) # ZeroCell

\* The cell <<glyph, fg, bg, font selector>> a snapshot holds at index k.
SnapshotCell(s, k) ==
    <<s.text[k], Slice4(s.fg, 4 * k), Slice4(s.bg, 4 * k), s.set[k]>>

\* C11 as claimed: a snapshot of size (w,h) taken at (x0,y0) holds source
\* cell (x0+i, y0+j) at index i + j*w of text and set and at bytes
\* 4*(i + j*w) .. 4*(i + j*w)+3 of fg and bg (row-major).
C11_SnapshotRowMajor ==
    (last.op = "take_snapshot" /\ ~last.panicked)
    => LET s == last.ret[1]
       IN \A i \in 0 .. s.size[1] - 1, j \in 0 .. s.size[2] - 1 :
            SnapshotCell(s, i + j * s.size[1]) =
                CellOf(grid, s.begin[1] + i, s.begin[2] + j)

\* What take_snapshot does instead: source cell (x0+i, y0+j) is at index
\* i*h + j of text and set and at bytes 4*(i*h + j) .. 4*(i*h + j)+3 of fg
\* and bg (column-major: the cells of one column are adjacent).
SnapshotColumnMajor ==
    (last.op = "take_snapshot" /\ ~last.panicked)
    => LET s == last.ret[1]
       IN \A i \in 0 .. s.size[1] - 1, j \in 0 .. s.size[2] - 1 :
            SnapshotCell(s, i * s.size[2] + j) =
                CellOf(grid, s.begin[1] + i, s.begin[2] + j)

\* A 2x2 snapshot was taken of four cells that all differ.
SnapshotOfDistinctCells ==
    /\ last.op = "take_snapshot"
    /\ ~last.panicked
    /\ last.ret[1].size = <<2, 2>>
    /\ Cardinality({SnapshotCell(last.ret[1], k) : k \in 0 .. 3}) = 4

\* The grid of a window record, and the window with a cleared grid.
GridOf(w) ==
    <<w.buffer_chars, w.buffer_colors_fg, w.buffer_colors_bg, w.set_buffer>>
ClearedWindow == clear(Self)
AllEncodable(text) == \A i \in 1 .. Len(text) : encode(text[i]) # None

\* take_snapshot(x, y, len, 1) directly follows print_at(x, y, text, ..)
\* made on a cleared grid, the text encodable and wholly inside the grid.
PrintThenSnapshotRow ==
    /\ last.op = "print_at_set"
    /\ last.args[6] = None
    /\ AllEncodable(last.args[3])
    /\ OnGrid(last.args[1], last.args[2])
    /\ OnGrid(last.args[1] + Len(last.args[3]) - 1, last.args[2])
    /\ grid = GridOf(print_at(ClearedWindow, last.args[1], last.args[2],
                              last.args[3], last.args[4], last.args[5]))
    /\ last'.op = "take_snapshot"
    /\ last'.args = <<last.args[1], last.args[2], Len(last.args[3]), 1>>

\* The snapshot returned by the step holds the text's bytes in order.
SnapshotHoldsText ==
    /\ ~last'.panicked
    /\ \A i \in 0 .. Len(last.args[3]) - 1 :
          last'.ret[1].text[i] = encode(last.args[3][i + 1])[1]

Positions(text) == 0 .. Len(text) - 1
\* The step is print_at_set(x, y, text, fg, bg, set) (print_at: set = None).
PrintStep == last'.op = "print_at_set"

\* The step placed character i of the text at (x+i, y) wherever the
\* character is encodable and the target inside the grid, and changed no
\* cell that is not such a target.
PrintPlaces(x, y, text) ==
    /\ \A i \in Positions(text) :
          (encode(text[i + 1]) # None /\ OnGrid(x + i, y))
          => CellOf(grid', x + i, y)[1] = encode(text[i + 1])[1]
    /\ \A c \in GridCells :
          (~\E i \in Positions(text) :
               c = <<x + i, y>> /\ encode(text[i + 1]) # None)
          => CellOf(grid', c[1], c[2]) = CellOf(grid, c[1], c[2])

\* C13: print places the i-th character at column x+i of row y for any
\* start, a negative x or one past the right edge included: encodable
\* characters with an in-grid target are written, unencodable ones occupy
\* a column, out-of-grid targets are skipped without shifting the later
\* characters, and no other cell changes.
C13_PrintPlacesCharacters ==
    [][PrintStep => PrintPlaces(last'.args[1], last'.args[2], last'.args[3])]_vars

\* What holds of the code: the same for every start with x >= 0.
PrintPlacesFromColumnZeroOn ==
    [][(PrintStep /\ last'.args[1] >= 0)
       => PrintPlaces(last'.args[1], last'.args[2], last'.args[3])]_vars

\* The step left the cell in the column of each unencodable character as
\* it was, left every channel whose override is None as it was in every
\* cell, and stored each given override at every in-grid column of an
\* encodable character.
PrintOverrides_Applied(x, y, text, fg, bg, set) ==
    /\ \A i \in Positions(text) :
          (encode(text[i + 1]) = None /\ OnGrid(x + i, y))
          => CellOf(grid', x + i, y) = CellOf(grid, x + i, y)
    /\ \A c \in GridCells :
          /\ fg = None => CellOf(grid', c[1], c[2])[2] = CellOf(grid, c[1], c[2])[2]
          /\ bg = None => CellOf(grid', c[1], c[2])[3] = CellOf(grid, c[1], c[2])[3]
          /\ set = None => CellOf(grid', c[1], c[2])[4] = CellOf(grid, c[1], c[2])[4]
    /\ \A i \in Positions(text) :
          (encode(text[i + 1]) # None /\ OnGrid(x + i, y))
          => /\ fg # None => CellOf(grid', x + i, y)[2] = fg[1]
             /\ bg # None => CellOf(grid', x + i, y)[3] = bg[1]
             /\ set # None => CellOf(grid', x + i, y)[4] = set[1]

\* C14: in print_at_set the fg, bg and font-selector overrides are applied
\* to a cell only when an encodable character is written there: the cell
\* of an unencodable character keeps glyph, fg, bg and selector, a None
\* override leaves its channel unchanged everywhere, and a given override
\* is stored at every in-grid column of an encodable character.
C14_OverridesOnlyWithGlyph ==
    [][PrintStep
       => PrintOverrides_Applied(last'.args[1], last'.args[2], last'.args[3],
                                 last'.args[4], last'.args[5], last'.args[6])]_vars

\* What holds of the code: the same for every start with x >= 0.
OverridesFromColumnZeroOn ==
    [][(PrintStep /\ last'.args[1] >= 0)
       => PrintOverrides_Applied(last'.args[1], last'.args[2], last'.args[3],
                                 last'.args[4], last'.args[5], last'.args[6])]_vars

\* The cell has the fields f of a draw_rect applied on top of cell `old`.
FieldsApplied(new, old, f) ==
    /\ new[1] = IF f.ch # None THEN encode(f.ch[1])[1] ELSE old[1]
    /\ new[2] = IF f.fg # None THEN f.fg[1] ELSE old[2]
    /\ new[3] = IF f.bg # None THEN f.bg[1] ELSE old[3]
    /\ new[4] = IF f.set # None THEN f.set[1] ELSE old[4]

\* Cell c is on the outline of the rectangle of origin o and size z.
OnPerimeter(c, o, z) ==
    /\ InRect(c, o, z)
    /\ \/ c[1] = o[1] \/ c[1] = o[1] + z[1] - 1
       \/ c[2] = o[2] \/ c[2] = o[2] + z[2] - 1

\* C15: draw_rect with filled = false, width >= 1 and height >= 1 applies
\* the given fields (an encodable glyph, a selector below the layer count)
\* to exactly the in-grid cells in column x or x+w-1 or row y or y+h-1 of
\* the rectangle; interior cells and cells outside it are unchanged.
C15_UnfilledRectIsPerimeter ==
    [][(/\ last'.op = "draw_rect"
        /\ last'.args[5] = FALSE
        /\ last'.args[3] >= 1 /\ last'.args[4] >= 1)
       => LET o == <<last'.args[1], last'.args[2]>>
              z == <<last'.args[3], last'.args[4]>>
              f == last'.args[6]
          IN /\ ~last'.panicked
             /\ \A c \in GridCells :
                  IF OnPerimeter(c, o, z)
                  THEN FieldsApplied(CellOf(grid', c[1], c[2]),
                                     CellOf(grid, c[1], c[2]), f)
                  ELSE CellOf(grid', c[1], c[2]) = CellOf(grid, c[1], c[2])]_vars

\* The unfilled 5x3 box was drawn at (0, 0) on the new window: 12 cells
\* changed, and the 3 interior cells (1,1), (2,1), (3,1) did not.
C15_Witness ==
    /\ last.op = "draw_rect"
    /\ last.args[1] = 0 /\ last.args[2] = 0
    /\ last.args[3] = 5 /\ last.args[4] = 3
    /\ last.args[5] = FALSE
    /\ steps = 1
    /\ Cardinality({c \in GridCells : CellOf(grid, c[1], c[2]) # ZeroCell}) = 12
    /\ \A x \in 1 .. 3 : CellOf(grid, x, 1) = ZeroCell

\* The calls that can store a font selector in a cell.
SelectorWriters ==
    {"set_set_at", "print_at_set", "draw_rect", "apply_snapshot",
     "TextBuilder::print"}

\* C16: in every reachable state every cell's stored font selector is
\* strictly less than the number of glyph-atlas layers, whatever sequence
\* of set_set_at, print_at_set, draw_rect, apply_snapshot, TextBuilder
\* printing and clear produced it.
C16_SelectorsBelowLayers ==
    \A c \in GridCells : CellOf(grid, c[1], c[2])[4] < Layers

\* A call was given the selector Layers and failed, on a grid where
\* some cell holds the highest selector there is.
C16_Witness ==
    /\ last.op \in SelectorWriters \ {"set_set_at"}
    /\ last.panicked
    /\ \E c \in GridCells : CellOf(grid, c[1], c[2])[4] = Layers - 1
    /\ Layers >= 2

\* C17: in every reachable state every live instance (slot index below
\* the instance count) has a font selector strictly less than the number
\* of glyph-atlas layers.
C17_LiveInstanceSelectorsBelowLayers ==
    \A i \in 1 .. instance_count : instances[i].set_char[1] < Layers

\* C18: set_set_at with a value >= the number of layers fails for every
\* (x, y), inside the grid or not, and changes no buffer, not the dirty
\* flag and not the instance pool: the value is neither stored nor clamped.
C18_SelectorAssertFires ==
    [][(last'.op = "set_set_at" /\ last'.args[3] >= Layers)
       => (last'.panicked /\ UNCHANGED <<grid, dirty, pool>>)]_vars

\* set_set_at(cols, 0, Layers) failed on a grid that an earlier call had
\* written to.
C18_Witness ==
    /\ last.op = "set_set_at"
    /\ last.args = <<Cols, 0, Layers>>
    /\ last.panicked
    /\ dirty

\* The GPU-side copies equal the CPU-side buffers (after the step).
GpuInSync ==
    gpu' = [chars |-> buffer_chars', fg |-> buffer_colors_fg',
            bg |-> buffer_colors_bg', set |-> set_buffer',
            instances |-> instances']

\* C19: a successful draw() does, in this order: the upload if and only if
\* dirty was set, the clear pass with the configured background colour,
\* the grid pass (6 vertices, one instance), the instance pass over the
\* instances 0..instance_count as of that draw, submit, present.
C19_DrawOrder ==
    [][(last'.op = "draw" /\ last'.ret.result = "Ok")
       => last'.ret.calls =
            (IF dirty THEN <<Did("update", <<>>)>> ELSE <<>>)
            \o <<Did("clear render pass", background_color),
                 Did("text render pass", <<6, 1>>),
                 Did("instance render pass", <<6, instance_count>>),
                 Did("submit", <<>>),
                 Did("present", <<>>)>>]_vars

\* A draw succeeded with one live instance while the last slot of the
\* pool still held a stale record: its instance pass drew one instance.
C19_Witness ==
    /\ last.op = "draw"
    /\ last.ret.result = "Ok"
    /\ instance_count = 1
    /\ MaxInstances >= 2
    /\ instances[MaxInstances] # ZeroInstance
    /\ last.ret.calls[Len(last.ret.calls) - 2] =
         Did("instance render pass", <<6, 1>>)

\* C20: when acquiring the surface image fails, draw() returns the error
\* for this frame only: it records no pass and submits and presents
\* nothing, the grid and the pool stay as pre_draw left them, the event
\* loop still runs post_draw and should_exit and requests a redraw unless
\* should_exit; and the frame after a failed one, with a working surface,
\* succeeds with all passes and the GPU copies equal to the buffers.
C20_SurfaceErrorIsPerFrame ==
    [][/\ (last'.op = "RedrawRequested" /\ last'.args[2] = FALSE)
          => LET w1 == pre_draw(Self, last'.args[1])
                 exit == last'.args[3]
             IN /\ last'.ret.result = "Err"
                /\ \A k \in DOMAIN last'.ret.calls :
                      last'.ret.calls[k].call = "update"
                /\ grid' = GridOf(w1)
                /\ pool' = <<w1.instances, w1.instance_count>>
                /\ ~last'.panicked
                /\ app'.calls =
                     <<"event", "pre_draw", "draw", "post_draw", "should_exit">>
                     \o (IF exit THEN <<"close", "exit">>
                         ELSE <<"request_redraw">>)
                /\ ~exit => (app'.pending >= 1 /\ ~app'.exited)
       /\ (/\ last.op = "RedrawRequested" /\ last.ret.result = "Err"
           /\ last'.op = "RedrawRequested" /\ last'.args[2] = TRUE)
          => /\ last'.ret.result = "Ok"
             /\ SubSeq(last'.ret.calls, Len(last'.ret.calls) - 4,
                       Len(last'.ret.calls)) = frame(instance_count')
             /\ GpuInSync]_vars

\* A frame whose draw failed was followed by a frame that succeeded and
\* rendered the glyph written before the failure and one live instance.
C20_Witness ==
    /\ last.op = "RedrawRequested"
    /\ last.ret.result = "Ok"
    /\ app.errors >= 1
    /\ steps = 2
    /\ instance_count = 1
    /\ buffer_chars[FlatIndex(1, 1)] = 65
    /\ gpu.chars = buffer_chars
    /\ gpu.instances = instances

\* Every "exit" in a sequence of callbacks comes right after a "close".
ExitAfterClose(calls) ==
    \A i \in DOMAIN calls :
        calls[i] = "exit" => (i > 1 /\ calls[i - 1] = "close")

\* C21: a RedrawRequested event calls pre_draw, draw, post_draw and
\* should_exit in this order; when should_exit is true it then calls
\* close() and exits and requests no redraw, otherwise it requests exactly
\* one redraw; and the event loop is told to exit, by should_exit or by
\* CloseRequested, only right after game.close().
C21_RedrawRequestedOrder ==
    [][/\ last'.op = "RedrawRequested"
          => LET exit == last'.args[3]
             IN /\ SubSeq(app'.calls, 2, 5) =
                     <<"pre_draw", "draw", "post_draw", "should_exit">>
                /\ exit => /\ SubSeq(app'.calls, 6, Len(app'.calls)) =
                                <<"close", "exit">>
                           /\ app'.exited
                           /\ app'.pending = app.pending - 1
                /\ ~exit => /\ SubSeq(app'.calls, 6, Len(app'.calls)) =
                                 <<"request_redraw">>
                            /\ ~app'.exited
                            /\ app'.pending = app.pending
       /\ app'.exited = (Count(app'.calls, "exit") > 0)
       /\ ExitAfterClose(app'.calls)
       /\ app.exited => app' = app]_vars

\* The loop exited from should_exit after an earlier frame that did not.
C21_Witness ==
    /\ last.op = "RedrawRequested"
    /\ last.args[3]
    /\ app.exited
    /\ app.pending = 0
    /\ steps = 2

\* c is the floor of ((position - padding / 2) / scale) / char_size, said
\* with integers: position is the fraction n / d.
IsCellOf(c, position, padding, scale, char_size) ==
    LET n == position[1]
        d == position[2]
        span == 2 * scale * char_size * d
    IN /\ c * span <= 2 * n - padding * d
       /\ 2 * n - padding * d < (c + 1) * span

\* C22: CursorMoved stores the cell floor(((pixel - padding / 2) / scale)
\* / glyph size) on each axis; with padding (16, 16), scale (2, 2) and an
\* 8x8 glyph the pixel (24, 24) is cell (1, 1); a pixel inside the left or
\* top padding gives a negative cell, which is stored as it is.
C22_PointerCell ==
    last.op = "CursorMoved"
    => LET position == last.args[1]
           g == app.geometry
           cell == app.keyboard.mouse_position
       IN /\ \A axis \in 1 .. 2 :
                /\ IsCellOf(cell[axis], position[axis], g.padding[axis],
                            g.scale[axis], g.glyph[axis])
                /\ 2 * position[axis][1] < g.padding[axis] * position[axis][2]
                   => cell[axis] < 0
          /\ (g = ExampleGeometry /\ position = <<F(24), F(24)>>)
             => cell = <<1, 1>>

\* The pointer moved to the pixel of the worked example as the second
\* event of a run.
C22_Witness ==
    /\ last.op = "CursorMoved"
    /\ last.args[1] = <<F(24), F(24)>>
    /\ app.geometry = ExampleGeometry
    /\ app.keyboard.mouse_position = <<1, 1>>
    /\ steps = 2

\* The physical keys whose most recent non-repeat event was a press.
LastPressed == {k \in PhysicalKeys : app.last_key[k] = "press"}

\* C23: the held-keys set is exactly the set of physical keys whose most
\* recent non-repeat event was a press: a non-repeat press inserts the
\* key, a non-repeat release removes it, and no other event changes the
\* set.
C23_HeldKeys ==
    [][/\ app'.keyboard.keys = LastPressed'
       /\ LET e == last'.args[1]
              keys == app.keyboard.keys
          IN app'.keyboard.keys =
               IF last'.op # "KeyboardInput" \/ e.repeat THEN keys
               ELSE IF e.pressed THEN keys \cup {e.physical_key}
               ELSE keys \ {e.physical_key}]_vars

\* Shift was pressed, then A, then shift was released: A alone is held.
C23_Witness ==
    /\ last.op = "KeyboardInput"
    /\ last.args[1].physical_key = "ShiftLeft"
    /\ ~last.args[1].pressed
    /\ ~last.args[1].repeat
    /\ app.keyboard.keys = {"KeyA"}
    /\ app.last_key["ShiftLeft"] = "release"
    /\ steps = 3

\* C24: the held-letters set holds the letters currently held: a
\* non-repeat press that carries text inserts its first character, the
\* release of the key removes it, so that the set is empty once every key
\* has been released; a repeat event changes neither the held letters nor
\* the held keys but still delivers text_input.
C24_HeldLetters ==
    [][last'.op = "KeyboardInput"
       => LET e == last'.args[1]
          IN /\ (~e.repeat /\ e.pressed /\ e.text # None)
                => e.text[1][1] \in app'.keyboard.letters
             /\ e.repeat
                => /\ app'.keyboard = app.keyboard
                   /\ (e.pressed /\ e.text # None)
                      => Count(app'.calls, "text_input") = 1
             /\ LastPressed' = {} => app'.keyboard.letters = {}]_vars

\* A repeat event leaves the keyboard as it is and delivers its text.
RepeatsOnlyDeliverText ==
    [][(last'.op = "KeyboardInput" /\ last'.args[1].repeat)
       => /\ app'.keyboard = app.keyboard
          /\ (last'.args[1].pressed /\ last'.args[1].text # None)
             => Count(app'.calls, "text_input") = 1]_vars

\* What a Resized event with size z does when resize is in force
\* (applies): a zero width or height changes and configures nothing,
\* otherwise the size is stored and the surface configured with it; the
\* grid, the dirty flag and the pool stay.
ResizeEffect(z, applies) ==
    /\ (z[1] = 0 \/ z[2] = 0 \/ ~applies)
       => /\ app'.surface_conf = app.surface_conf
          /\ app'.surface = app.surface
          /\ Count(app'.calls, "configure") = 0
    /\ (z[1] > 0 /\ z[2] > 0 /\ applies)
       => /\ app'.surface_conf = z
          /\ app'.surface = z
          /\ Count(app'.calls, "configure") = 1
    /\ grid' = grid
    /\ dirty' = dirty
    /\ pool' = pool

\* C25: resize(new_size) with width = 0 or height = 0 leaves the surface
\* configuration as it is and does not configure the surface; with both
\* positive it stores new_size as the configured width and height and
\* configures the surface; the grid buffers, the dirty flag and the
\* instance pool are unchanged in both cases.
C25_Resize ==
    [][last'.op = "Resized" => ResizeEffect(last'.args[1], TRUE)]_vars

\* C25, amended: the above on every target but wasm32; on wasm32 resize
\* changes and configures nothing whatever the size.
C25_ResizeOffWasm32 ==
    [][last'.op = "Resized" => ResizeEffect(last'.args[1], ~app.wasm32)]_vars

\* A native window with a written, dirty grid was resized to 200x100.
C25_Witness ==
    /\ last.op = "Resized"
    /\ last.args[1] = <<200, 100>>
    /\ ~app.wasm32
    /\ app.surface_conf = <<200, 100>>
    /\ app.surface = <<200, 100>>
    /\ dirty
    /\ buffer_chars[FlatIndex(1, 1)] = 65

\* C26: in every draw the upload runs exactly when dirty is set at its
\* start, and then it brings all five GPU copies (glyph, fg, bg and
\* font-selector textures, instance buffer) to the CPU buffers; without
\* it the GPU copies stay; and whenever the render passes run, each GPU
\* copy equals its CPU buffer.
C26_GpuEqualsCpuAtRender ==
    [][last'.op = "draw"
       => /\ Count(last'.ret.calls, Did("update", <<>>))
               = (IF dirty THEN 1 ELSE 0)
          /\ dirty => /\ gpu'.chars = buffer_chars
                      /\ gpu'.fg = buffer_colors_fg
                      /\ gpu'.bg = buffer_colors_bg
                      /\ gpu'.set = set_buffer
                      /\ gpu'.instances = instances
          /\ ~dirty => gpu' = gpu
          /\ grid' = grid /\ pool' = pool
          /\ Count(last'.ret.calls, Did("submit", <<>>)) = 1
             => GpuInSync]_vars

\* A print with colours and a font selector and an add_instance were
\* followed by a draw that rendered: all five GPU copies hold what was
\* written.
C26_Witness ==
    /\ last.op = "draw"
    /\ last.ret.result = "Ok"
    /\ steps = 3
    /\ instance_count = 1
    /\ \E i \in 0 .. Cells - 1 :
          /\ buffer_chars[i] # 0
          /\ set_buffer[i] # 0
          /\ buffer_colors_fg[4 * i] # 0
          /\ buffer_colors_bg[4 * i] # 0
          /\ gpu.set[i] = set_buffer[i]
    /\ gpu.chars = buffer_chars
    /\ gpu.fg = buffer_colors_fg
    /\ gpu.bg = buffer_colors_bg
    /\ gpu.instances = instances

\* The cursor after n characters of a wrapped print: it starts at pos, and
\* after each character it goes to (return_x, y + 1) when x > width_end
\* and to (x + 1, y) otherwise.
RECURSIVE CursorAfter(_, _, _, _)
CursorAfter(n, pos, width_end, return_x) ==
    IF n = 0 THEN pos
    ELSE LET c == CursorAfter(n - 1, pos, width_end, return_x)
         IN IF c[1] > width_end THEN <<return_x, c[2] + 1>>
            ELSE <<c[1] + 1, c[2]>>

\* The cells that differ between two grids.
ChangedCells(g, h) ==
    {c \in GridCells : CellOf(g, c[1], c[2]) # CellOf(h, c[1], c[2])}

\* What a character of a segment leaves in its cell under col_sub.
SegmentCell(c, col_sub) ==
    <<encode(c.ch)[1], sub(c.seg.fg, col_sub), sub(c.seg.bg, col_sub),
      c.seg.set>>

\* The first n characters of cs were written at their cursors: every
\* cursor on the grid holds its last character, no other cell changed.
WrittenAtCursors(cs, n, pos, width_end, return_x, col_sub) ==
    LET at(i) == CursorAfter(i - 1, pos, width_end, return_x)
    IN /\ \A i \in 1 .. n :
             (/\ OnGrid(at(i)[1], at(i)[2])
              /\ \A j \in i + 1 .. n : at(j) # at(i))
             => CellOf(grid', at(i)[1], at(i)[2]) = SegmentCell(cs[i], col_sub)
       /\ \A c \in ChangedCells(grid, grid') : \E i \in 1 .. n : at(i) = c

\* C27: TextBuilder::print writes each character of the segments, in
\* order, at the cursor, moves the cursor to (return_x, y + 1) when
\* x > width_end and to (x + 1, y) otherwise, and returns the cursor after
\* the last character; so with pos.0 <= width_end + 1 and
\* return_x <= width_end + 1 no cell in a column > width_end + 1 is
\* written.
C27_PrintWrapsByCursor ==
    [][last'.op = "TextBuilder::print"
       => LET tb == last'.args[1]
              pos == last'.args[2]
              width_end == last'.args[3]
              return_x == last'.args[4]
              cs == segment_chars(tb.segments)
          IN /\ ~last'.panicked
             /\ last'.ret = CursorAfter(Len(cs), pos, width_end, return_x)
             /\ WrittenAtCursors(cs, Len(cs), pos, width_end, return_x,
                                 TRANSPARENT)
             /\ (pos[1] <= width_end + 1 /\ return_x <= width_end + 1)
                => \A c \in ChangedCells(grid, grid') : c[1] <= width_end + 1
       ]_vars

\* Five characters printed from (0, 0) with width_end 1 and return_x 0
\* over an earlier text: three in row 0, the last two in row 1, the pen
\* back at (2, 1).
C27_Witness ==
    /\ last.op = "TextBuilder::print"
    /\ last.args[2] = <<0, 0>>
    /\ last.args[3] = 1
    /\ last.args[4] = 0
    /\ last.ret = <<2, 1>>
    /\ steps = 2
    /\ CellOf(grid, 2, 0)[1] = 65
    /\ CellOf(grid, 0, 1)[1] = 72
    /\ CellOf(grid, 1, 1) = <<65, RED, <<0, 0, 0, 255>>, Layers - 1>>

\* The number of characters print_sub_cutoff writes under a limit: those
\* before the first one whose cursor row has reached the limit.
RECURSIVE WrittenBefore(_, _, _, _, _, _)
WrittenBefore(n, total, pos, width_end, return_x, limit) ==
    IF n = total \/ CursorAfter(n, pos, width_end, return_x)[2] >= limit
    THEN n
    ELSE WrittenBefore(n + 1, total, pos, width_end, return_x, limit)

Max(a, b) == IF a >= b THEN a ELSE b

\* C28: print_sub_cutoff with cutoff_y = Some(limit) changes no cell in a
\* row >= limit: it stops at the first character whose cursor row has
\* reached limit and drops the rest of the text of all segments, and the
\* row it returns is at most max(pos.1, limit).
C28_CutoffStopsAtLimit ==
    [][(last'.op = "TextBuilder::print_sub_cutoff" /\ last'.args[6] # None)
       => LET tb == last'.args[1]
              pos == last'.args[2]
              width_end == last'.args[3]
              col_sub == last'.args[4]
              return_x == last'.args[5]
              limit == last'.args[6][1]
              cs == segment_chars(tb.segments)
              n == WrittenBefore(0, Len(cs), pos, width_end, return_x, limit)
          IN /\ ~last'.panicked
             /\ \A c \in ChangedCells(grid, grid') : c[2] < limit
             /\ WrittenAtCursors(cs, n, pos, width_end, return_x, col_sub)
             /\ last'.ret = CursorAfter(n, pos, width_end, return_x)
             /\ last'.ret[2] <= Max(pos[2], limit)]_vars

\* Five characters from (0, 0) under the limit 1: the three of row 0 were
\* written, darkened, the pen went to (0, 1) and the last two were
\* dropped.
C28_Witness ==
    /\ last.op = "TextBuilder::print_sub_cutoff"
    /\ last.args[2] = <<0, 0>>
    /\ last.args[6] = Some(1)
    /\ Len(segment_chars(last.args[1].segments)) = 5
    /\ last.ret = <<0, 1>>
    /\ steps = 1
    /\ CellOf(grid, 2, 0) = <<65, <<245, 0, 0, 255>>, <<0, 0, 0, 255>>,
                              Layers - 1>>
    /\ CellOf(grid, 0, 1) = ZeroCell

\* C29: draw_rect changes only cells inside [x, x + width) x
\* [y, y + height), filled or not, for every width and height; with
\* width <= 0 or height <= 0 it changes no cell.
C29_RectChangesOnlyInside ==
    [][last'.op = "draw_rect"
       => LET x == last'.args[1]
              y == last'.args[2]
              width == last'.args[3]
              height == last'.args[4]
          IN /\ \A c \in ChangedCells(grid, grid') :
                   InRect(c, <<x, y>>, <<width, height>>)
             /\ (width <= 0 \/ height <= 0) => grid' = grid]_vars

\* The same for the rectangles draw_rect keeps to: filled ones, and
\* unfilled ones with both dimensions positive or both not.
RectChangesOnlyInsideUnlessOneSided ==
    [][(/\ last'.op = "draw_rect"
        /\ \/ last'.args[5]
           \/ (last'.args[3] > 0) = (last'.args[4] > 0))
       => \A c \in ChangedCells(grid, grid') :
             InRect(c, <<last'.args[1], last'.args[2]>>,
                    <<last'.args[3], last'.args[4]>>)]_vars

\* Whether a button is hovered and pressed, from the keyboard and the
\* selection as they are before a render.
HoveredAndPressed(b, start) ==
    /\ \/ /\ app.keyboard.mouse_position[2] = start[2]
          /\ app.keyboard.mouse_position[1] - start[1] \in 0 .. Len(b.text) - 1
       \/ app.ui.selected = Some(b.id)
    /\ \/ app.keyboard.mouse_pressed
       \/ "Enter" \in app.keyboard.keys

\* C30: a render of a Button pushes Event::Pressed(id) exactly when the
\* stored state is false and the button is now hovered and pressed, and
\* Event::Unpressed(id) exactly when the stored state is true and it is
\* no longer so; it pushes nothing when the state is unchanged or on the
\* first render; afterwards the stored entry for id is (hovered and
\* pressed).
C30_ButtonEvents ==
    [][last'.op = "Button::render_and_process"
       => LET b == last'.args[1]
              now == HoveredAndPressed(b, last'.args[2])
              stored == app.ui.data[b.id]
          IN /\ app'.ui.events =
                  app.ui.events
                  \o (IF stored = Some(Boolean(FALSE)) /\ now
                      THEN <<Pressed(b.id)>>
                      ELSE IF stored = Some(Boolean(TRUE)) /\ ~now
                      THEN <<Unpressed(b.id)>>
                      ELSE <<>>)
             /\ app'.ui.data[b.id] = Some(Boolean(now))]_vars

\* What does hold of a render: one event for id is pushed exactly when a
\* stored state exists and differs from (hovered and pressed), the stored
\* entry becomes (hovered and pressed), the other entries stay.
ButtonEventOnChangeOnly ==
    [][last'.op = "Button::render_and_process"
       => LET b == last'.args[1]
              now == HoveredAndPressed(b, last'.args[2])
              stored == app.ui.data[b.id]
              changed == stored # None /\ stored # Some(Boolean(now))
          IN /\ Len(app'.ui.events)
                  = Len(app.ui.events) + (IF changed THEN 1 ELSE 0)
             /\ SubSeq(app'.ui.events, 1, Len(app.ui.events)) = app.ui.events
             /\ changed => app'.ui.events[Len(app'.ui.events)].id = b.id
             /\ app'.ui.data[b.id] = Some(Boolean(now))
             /\ \A i \in UiIds \ {b.id} : app'.ui.data[i] = app.ui.data[i]
       ]_vars

====
